---- MODULE Spec2Model ----
(***************************************************************************)
(* A model of the vortex array library: logical dtypes, array handles of   *)
(* the Primitive / Bool / Constant / Chunked encodings, and the compute     *)
(* kernels binary_numeric, binary_boolean and the ChunkedArray operations   *)
(* (try_new, chunk, find_chunk_idx, is_valid, rechunk).                     *)
(***************************************************************************)
EXTENDS Integers, Sequences, FiniteSets, TLC

VARIABLES
    lhs,              \* left operand of a binary kernel call
    rhs,              \* right operand (an array, or the scalar of a *_scalar helper)
    op,               \* the operator of the call
    chunks,           \* Vec<ArrayData> handed to ChunkedArray::try_new
    dtype,            \* DType handed to ChunkedArray::try_new
    array,            \* the ChunkedArray under test (a VortexResult)
    args,             \* the arguments of the last call on `array`
    out,              \* the value returned by the last call
    pc,               \* which call returned last
    splits_stream,    \* the split ranges of a file stream and the next one to hand out
    mask_reader,      \* BufferedLayoutReader over ReadRowMask (the filter stage), if any
    array_reader,     \* BufferedLayoutReader over ReadArray (the projection stage)
    messages_cache,   \* LayoutMessageCache: the messages fetched so far
    emitted           \* the items poll_next has returned, in order

StreamVars == <<splits_stream, mask_reader, array_reader, messages_cache, emitted>>

vars == <<lhs, rhs, op, chunks, dtype, array, args, out, pc, StreamVars>>

\* No file stream is open.
StreamIdle ==
    /\ splits_stream = <<>>
    /\ mask_reader = <<>>
    /\ array_reader = <<>>
    /\ messages_cache = {}
    /\ emitted = <<>>

----------------------------------------------------------------------------
(* Bounds of the model. *)

\* Largest number of rows of an operand of a binary kernel.
MaxLen == 2
\* Largest number of chunks of a chunked operand of a binary kernel.
MaxChunks == 2
\* Largest number of chunks handed to ChunkedArray::try_new.
MaxNChunks == 3
\* Largest number of rows of one such chunk.
MaxChunkLen == 3
\* Largest target_bytesize and target_rowsize of a rechunk call.
MaxTarget == 3

----------------------------------------------------------------------------
(* Generic helpers. *)

RECURSIVE SumSeq(_)
SumSeq(s) == IF s = <<>> THEN 0 ELSE Head(s) + SumSeq(Tail(s))

RECURSIVE Concat(_)
Concat(ss) == IF ss = <<>> THEN <<>> ELSE Head(ss) \o Concat(Tail(ss))

\* All sequences over S of length 0..n.
SeqUpTo(S, n) == UNION {[1..k -> S] : k \in 0..n}

----------------------------------------------------------------------------
(* DType: the logical type.  Only the variants the kernels below inspect.  *)

PTypes == {"U8", "I8", "U16"}

Primitive(ptype, nullable) == [kind |-> "Primitive", ptype |-> ptype, nullable |-> nullable]
Bool(nullable) == [kind |-> "Bool", ptype |-> "-", nullable |-> nullable]

is_nullable(dt) == dt.nullable

\* Value range of a ptype (checked integer arithmetic).
PTypeMin(ptype) == IF ptype = "I8" THEN -128 ELSE 0
PTypeMax(ptype) == CASE ptype = "U8" -> 255 [] ptype = "I8" -> 127 [] OTHER -> 65535
byte_width(ptype) == IF ptype = "U16" THEN 2 ELSE 1

----------------------------------------------------------------------------
(* Scalars and arrays.  An element is a validity bit and a value; the      *)
(* value of an invalid element is 0.                                       *)

Elem(valid, v) == [valid |-> valid, v |-> IF valid THEN v ELSE 0]
NullElem == Elem(FALSE, 0)

PrimitiveArray(dt, elems) == [encoding |-> "primitive", dtype |-> dt, elems |-> elems]
BoolArray(dt, elems) == [encoding |-> "bool", dtype |-> dt, elems |-> elems]
ConstantArray(dt, scalar, len) ==
    [encoding |-> "constant", dtype |-> dt, scalar |-> scalar, len |-> len]

Ok(a) == [ok |-> TRUE, err |-> "", array |-> a]
Err(kind) == [ok |-> FALSE, err |-> kind, array |-> <<>>]

RECURSIVE ArrayLen(_)
ArrayLen(a) ==
    CASE a.encoding = "constant" -> a.len
      [] a.encoding = "chunked" -> a.len
      [] OTHER -> Len(a.elems)

\* The canonical form of an array: its elements in row order.
RECURSIVE into_canonical(_)
into_canonical(a) ==
    CASE a.encoding = "constant" -> [i \in 1..a.len |-> a.scalar]
      [] a.encoding = "chunked" ->
            Concat([k \in 1..Len(a.chunks) |-> into_canonical(a.chunks[k])])
      [] OTHER -> a.elems

CanonicalArray(a) ==
    IF a.dtype.kind = "Bool"
    THEN BoolArray(a.dtype, into_canonical(a))
    ELSE PrimitiveArray(a.dtype, into_canonical(a))

----------------------------------------------------------------------------
(* ChunkedArray: construction and chunk access.                            *)

\* chunk_offsets of try_new: [0] chained with the chunk lengths, scanned
\* into running sums.
RECURSIVE ScanOffsets(_, _)
ScanOffsets(lens, acc) ==
    IF lens = <<>> THEN <<>>
    ELSE <<acc + Head(lens)>> \o ScanOffsets(Tail(lens), acc + Head(lens))

ChunkOffsetsOf(cs) == ScanOffsets(<<0>> \o [k \in 1..Len(cs) |-> ArrayLen(cs[k])], 0)

\* try_new without the comparison of each chunk's dtype.
try_new_unchecked(cs, dt) ==
    LET chunk_offsets == ChunkOffsetsOf(cs)
    IN  Ok([encoding |-> "chunked", dtype |-> dt,
            len |-> chunk_offsets[Len(chunk_offsets)],
            nchunks |-> Len(chunk_offsets) - 1, chunk_offsets |-> chunk_offsets,
            chunks |-> cs])

try_new(cs, dt) ==
    IF \E k \in 1..Len(cs) : cs[k].dtype # dt
    THEN Err("MismatchedTypes")
    ELSE LET chunk_offsets == ChunkOffsetsOf(cs)
             nchunks == Len(chunk_offsets) - 1
             length == chunk_offsets[Len(chunk_offsets)]
         IN  Ok([encoding |-> "chunked", dtype |-> dt, len |-> length,
                 nchunks |-> nchunks, chunk_offsets |-> chunk_offsets,
                 chunks |-> cs])

\* chunk(idx): child idx + 1, declared with length offsets[idx+1] - offsets[idx].
chunk(a, idx) ==
    IF idx >= a.nchunks
    THEN Err("chunk index > num chunks")
    ELSE LET chunk_start == a.chunk_offsets[idx + 1]
             chunk_end == a.chunk_offsets[idx + 2]
         IN  [ok |-> TRUE, err |-> "", array |-> a.chunks[idx + 1],
              len |-> chunk_end - chunk_start]

\* search_sorted_usize(offsets, index, Right): the number of offsets <= index
\* (the insertion point after the last equal element).
search_sorted_right(offsets, index) ==
    Cardinality({k \in 1..Len(offsets) : offsets[k] <= index})

\* SearchResult::to_ends_index(len): the index, clamped into the array.
to_ends_index(idx, len) == IF idx = len THEN idx - 1 ELSE idx

saturating_sub(a, b) == IF a >= b THEN a - b ELSE 0

\* find_chunk_idx searching from the left (SearchSortedSide::Left): the
\* insertion point before the first equal offset.
find_chunk_idx_left(a, index) ==
    LET index_chunk ==
            saturating_sub(
                to_ends_index(Cardinality({k \in 1..Len(a.chunk_offsets) :
                                              a.chunk_offsets[k] < index}),
                              a.nchunks + 1), 1)
    IN  <<index_chunk, index - a.chunk_offsets[index_chunk + 1]>>

\* find_chunk_idx(index) = (index_chunk, index_in_chunk), both 0-based.
find_chunk_idx(a, index) ==
    LET index_chunk ==
            saturating_sub(
                to_ends_index(search_sorted_right(a.chunk_offsets, index),
                              a.nchunks + 1), 1)
        chunk_start == a.chunk_offsets[index_chunk + 1]
    IN  <<index_chunk, index - chunk_start>>

\* slice(a, lo, hi): rows lo..hi-1 of a.  A Chunked array slices its first
\* and last chunk at the edges and keeps the middle chunks whole; it stays
\* Chunked unless a single chunk survives.
RECURSIVE slice(_, _, _)
slice(a, lo, hi) ==
    CASE a.encoding = "constant" -> ConstantArray(a.dtype, a.scalar, hi - lo)
      [] a.encoding = "chunked" ->
            IF a.nchunks = 0 THEN a
            ELSE LET first == find_chunk_idx(a, lo)
                     last == find_chunk_idx(a, hi)
                 IN  IF first[1] = last[1]
                     THEN slice(a.chunks[first[1] + 1], first[2], last[2])
                     ELSE LET n == last[1] - first[1] + 1
                              cut == [k \in 1..n |->
                                        LET c == a.chunks[first[1] + k]
                                        IN  CASE k = 1 -> slice(c, first[2], ArrayLen(c))
                                              [] k = n -> slice(c, 0, last[2])
                                              [] OTHER -> c]
                              kept == IF last[2] = 0 THEN SubSeq(cut, 1, n - 1) ELSE cut
                          IN  try_new(kept, a.dtype).array
      [] OTHER -> [a EXCEPT !.elems = SubSeq(a.elems, lo + 1, hi)]

\* scalar_at(a, i) and is_valid(a, i): a Chunked array recurses into the
\* chunk find_chunk_idx names.
RECURSIVE scalar_at(_, _)
scalar_at(a, i) ==
    CASE a.encoding = "constant" -> a.scalar
      [] a.encoding = "chunked" ->
            LET f == find_chunk_idx(a, i)
            IN  scalar_at(chunk(a, f[1]).array, f[2])
      [] OTHER -> a.elems[i + 1]

is_valid(a, index) ==
    IF a.encoding = "chunked"
    THEN LET f == find_chunk_idx(a, index)
         IN  scalar_at(chunk(a, f[1]).array, f[2]).valid
    ELSE scalar_at(a, index).valid

----------------------------------------------------------------------------
(* compute::binary_numeric and the scalar helpers.                         *)

BinaryNumericOperator == {"Add", "Sub", "Mul", "Div"}

\* A VortexResult<ArrayData> together with the branch that returned it.
OkVia(a, path) == [ok |-> TRUE, err |-> "", array |-> a, path |-> path]
ErrVia(kind, path) == [ok |-> FALSE, err |-> kind, array |-> <<>>, path |-> path]

\* arrow_arith::numeric::{add, sub, mul, div} on one pair of valid values:
\* checked arithmetic, an error on overflow and on division by zero.
ArithFails(operator, ptype, a, b) ==
    CASE operator = "Add" -> a + b > PTypeMax(ptype) \/ a + b < PTypeMin(ptype)
      [] operator = "Sub" -> a - b > PTypeMax(ptype) \/ a - b < PTypeMin(ptype)
      [] operator = "Mul" -> a * b > PTypeMax(ptype) \/ a * b < PTypeMin(ptype)
      [] OTHER -> b = 0

\* Integer division truncating towards zero.
TruncDiv(a, b) ==
    IF b = 0 THEN 0
    ELSE IF (a >= 0) = (b > 0)
         THEN (IF a >= 0 THEN a ELSE -a) \div (IF b > 0 THEN b ELSE -b)
         ELSE -((IF a >= 0 THEN a ELSE -a) \div (IF b > 0 THEN b ELSE -b))

Arith(operator, a, b) ==
    CASE operator = "Add" -> a + b
      [] operator = "Sub" -> a - b
      [] operator = "Mul" -> a * b
      [] OTHER -> TruncDiv(a, b)

\* Both sides are turned into Arrow data (their canonical rows); the kernel
\* computes the valid positions and keeps a null where either side is null.
arrow_numeric(l, r, operator) ==
    LET nullable == is_nullable(l.dtype) \/ is_nullable(r.dtype)
        ls == into_canonical(l)
        rs == into_canonical(r)
        ptype == l.dtype.ptype
        both(i) == ls[i].valid /\ rs[i].valid
    IN  IF \E i \in 1..Len(ls) : both(i) /\ ArithFails(operator, ptype, ls[i].v, rs[i].v)
        THEN ErrVia("ArrowComputeError", "arrow")
        ELSE OkVia(PrimitiveArray(Primitive(ptype, nullable),
                       [i \in 1..Len(ls) |->
                           IF both(i) THEN Elem(TRUE, Arith(operator, ls[i].v, rs[i].v))
                           ELSE NullElem]),
                   "arrow")

\* Which encodings register a binary_numeric kernel: Chunked does, the
\* canonical Primitive encoding and Constant do not.
binary_numeric_fn(encoding) == encoding = "chunked"

\* The debug assertions on a kernel's result.
KernelResultOk(result, l, r) ==
    /\ ArrayLen(result) = ArrayLen(l)
    /\ result.dtype = Primitive(l.dtype.ptype, is_nullable(l.dtype) \/ is_nullable(r.dtype))

RECURSIVE binary_numeric(_, _, _)
RECURSIVE ChunkedBinaryNumericLoop(_, _, _, _, _, _)

\* The loop with `start` never advanced: every chunk meets the head of rhs.
RECURSIVE ChunkedBinaryNumericLoop_head(_, _, _, _, _, _)
ChunkedBinaryNumericLoop_head(a, r, operator, k, start, new_chunks) ==
    IF k > a.nchunks
    THEN try_new(new_chunks, a.dtype)
    ELSE LET c == chunk(a, k - 1).array
             res == binary_numeric(c, slice(r, 0, ArrayLen(c)), operator)
         IN  IF ~res.ok THEN Err(res.err)
             ELSE ChunkedBinaryNumericLoop_head(a, r, operator, k + 1, 0,
                                                Append(new_chunks, res.array))

\* The loop of BinaryNumericFn<ChunkedArray>: chunk k against the slice
\* [start, end) of rhs; the first error ends it.
ChunkedBinaryNumericLoop(a, r, operator, k, start, new_chunks) ==
    IF k > a.nchunks
    THEN try_new(new_chunks, a.dtype)
    ELSE LET c == chunk(a, k - 1).array
             end == start + ArrayLen(c)
             res == binary_numeric(c, slice(r, start, end), operator)
         IN  IF ~res.ok THEN Err(res.err)
             ELSE ChunkedBinaryNumericLoop(a, r, operator, k + 1, end,
                                           Append(new_chunks, res.array))

\* BinaryNumericFn<ChunkedArray>::binary_numeric(array, rhs, op).
ChunkedBinaryNumeric(a, r, operator) ==
    ChunkedBinaryNumericLoop(a, r, operator, 1, 0, <<>>)

\* A kernel call through the vtable, and what binary_numeric makes of it.
ViaKernel(self, other, operator, l, r, path) ==
    LET res == ChunkedBinaryNumeric(self, other, operator)
    IN  IF ~res.ok THEN ErrVia(res.err, path)
        ELSE IF ~KernelResultOk(res.array, l, r) THEN ErrVia("panic", path)
        ELSE OkVia(res.array, path)

\* binary_numeric without the comparison of the two dtypes.
binary_numeric_kinds_only(l, r, operator) ==
    IF ArrayLen(l) # ArrayLen(r)
    THEN ErrVia("different lengths", "check")
    ELSE IF l.dtype.kind # "Primitive" \/ r.dtype.kind # "Primitive"
    THEN ErrVia("not the same primitive-type", "check")
    ELSE IF binary_numeric_fn(l.encoding)
    THEN ViaKernel(l, r, operator, l, r, "lhs_kernel")
    ELSE IF binary_numeric_fn(r.encoding)
    THEN ViaKernel(r, l, operator, l, r, "rhs_kernel")
    ELSE arrow_numeric(l, r, operator)

binary_numeric(l, r, operator) ==
    IF ArrayLen(l) # ArrayLen(r)
    THEN ErrVia("different lengths", "check")
    ELSE IF \/ l.dtype.kind # "Primitive"
            \/ r.dtype.kind # "Primitive"
            \/ l.dtype # r.dtype
    THEN ErrVia("not the same primitive-type", "check")
    ELSE IF binary_numeric_fn(l.encoding)
    THEN ViaKernel(l, r, operator, l, r, "lhs_kernel")
    ELSE IF binary_numeric_fn(r.encoding)
    THEN ViaKernel(r, l, operator, l, r, "rhs_kernel")
    ELSE arrow_numeric(l, r, operator)

\* A Scalar is a dtype and an element; ConstantArray::new(scalar, len).
ConstantOf(scalar, len) == ConstantArray(scalar.dtype, scalar.value, len)

add_scalar(l, scalar) == binary_numeric(l, ConstantOf(scalar, ArrayLen(l)), "Add")
sub_scalar(l, scalar) == binary_numeric(l, ConstantOf(scalar, ArrayLen(l)), "Sub")
mul_scalar(l, scalar) == binary_numeric(l, ConstantOf(scalar, ArrayLen(l)), "Mul")
div_scalar(l, scalar) == binary_numeric(l, ConstantOf(scalar, ArrayLen(l)), "Mul")

----------------------------------------------------------------------------
(* The arrays the binary kernels are called on.                            *)

\* Element values of the input arrays.
Vals == {1, 2}

ElemsOf(dt) ==
    {Elem(TRUE, v) : v \in (IF dt.kind = "Bool" THEN {0, 1} ELSE Vals)}
        \cup (IF dt.nullable THEN {NullElem} ELSE {})

Rows(dt, n) == [1..n -> ElemsOf(dt)]

FlatArray(dt, rows) ==
    IF dt.kind = "Bool" THEN BoolArray(dt, rows) ELSE PrimitiveArray(dt, rows)

\* Chunk lengths of at most MaxChunks chunks (empty ones included) over n rows.
ChunkLens(n) == {ls \in SeqUpTo(0..n, MaxChunks) : SumSeq(ls) = n}

\* The chunked array holding rows in chunks of the given lengths.
ChunkedOf(dt, rows, lens) ==
    LET offs == ScanOffsets(<<0>> \o lens, 0)
    IN  try_new([k \in 1..Len(lens) |->
                    FlatArray(dt, SubSeq(rows, offs[k] + 1, offs[k + 1]))], dt).array

ChunkedArrays(dt, n) == {ChunkedOf(dt, rows, lens) : rows \in Rows(dt, n), lens \in ChunkLens(n)}
FlatArrays(dt, n) == {FlatArray(dt, rows) : rows \in Rows(dt, n)}
ConstantArrays(dt, n) == {ConstantArray(dt, e, n) : e \in ElemsOf(dt)}
Scalars(dt) == {[dtype |-> dt, value |-> e] : e \in ElemsOf(dt)}

NumPTypes == {"U8", "I8"}
NumDTypes == {Primitive(p, n) : p \in NumPTypes, n \in BOOLEAN}

----------------------------------------------------------------------------
(* Calls of the numeric kernels.                                           *)

NoResult == ErrVia("none", "none")
NoArray == Err("none")

IsArray(x) == "encoding" \in DOMAIN x
IsScalar(x) == "value" \in DOMAIN x

\* Rows that are all the valid value v.
Uniform(n, v) == [i \in 1..n |-> Elem(TRUE, v)]

\* Operands of equal dtype and length: any left shape against a flat or
\* constant right side, and a non-nullable pair against a chunked right side.
MatchedOperands(l, r) ==
    \E dt \in NumDTypes, n \in 0..MaxLen :
        \/ /\ l \in FlatArrays(dt, n) \cup ChunkedArrays(dt, n)
           /\ r \in FlatArrays(dt, n) \cup ConstantArrays(dt, n)
        \/ /\ ~dt.nullable
           /\ l \in FlatArrays(dt, n) \cup ChunkedArrays(dt, n)
           /\ r \in ChunkedArrays(dt, n)

\* Operands that differ in length, ptype, nullability or kind.
ShapesOf(dt, n) ==
    LET rows == Uniform(n, 1)
    IN  {FlatArray(dt, rows), ConstantArray(dt, Elem(TRUE, 1), n)}
            \cup {ChunkedOf(dt, rows, lens) : lens \in ChunkLens(n)}

MismatchedOperands(l, r) ==
    \E dl \in NumDTypes \cup {Bool(FALSE)}, dr \in NumDTypes \cup {Bool(FALSE)},
       n \in 0..MaxLen, m \in 0..MaxLen :
        /\ dl # dr \/ n # m \/ dl.kind = "Bool"
        /\ l \in ShapesOf(dl, n)
        /\ r \in ShapesOf(dr, m)

ScalarOperands(l, r) ==
    \E dt \in NumDTypes, ds \in NumDTypes, n \in 0..MaxLen :
        /\ dt.ptype = ds.ptype \/ ~dt.nullable
        /\ l \in FlatArrays(dt, n) \cup ChunkedArrays(dt, n)
        /\ r \in Scalars(ds)

ChunkedIdle ==
    /\ chunks = <<>>
    /\ dtype = Primitive("U8", FALSE)
    /\ array = NoArray
    /\ args = <<>>

InitNumeric ==
    /\ \/ MatchedOperands(lhs, rhs) /\ op \in BinaryNumericOperator
       \/ MismatchedOperands(lhs, rhs) /\ op \in BinaryNumericOperator
       \/ ScalarOperands(lhs, rhs) /\ op = "-"
    /\ ChunkedIdle
    /\ StreamIdle
    /\ out = NoResult
    /\ pc = "init"

Returned(name, value) ==
    /\ out' = value
    /\ pc' = name
    /\ UNCHANGED <<lhs, rhs, op, chunks, dtype, array, args, StreamVars>>

BinaryNumeric ==
    /\ pc = "init" /\ IsArray(rhs)
    /\ Returned("binary_numeric", binary_numeric(lhs, rhs, op))

AddScalar ==
    /\ pc = "init" /\ IsScalar(rhs)
    /\ Returned("add_scalar", add_scalar(lhs, rhs))

SubScalar ==
    /\ pc = "init" /\ IsScalar(rhs)
    /\ Returned("sub_scalar", sub_scalar(lhs, rhs))

MulScalar ==
    /\ pc = "init" /\ IsScalar(rhs)
    /\ Returned("mul_scalar", mul_scalar(lhs, rhs))

DivScalar ==
    /\ pc = "init" /\ IsScalar(rhs)
    /\ Returned("div_scalar", div_scalar(lhs, rhs))

NextNumeric == BinaryNumeric \/ AddScalar \/ SubScalar \/ MulScalar \/ DivScalar

SpecNumeric == InitNumeric /\ [][NextNumeric]_vars

----------------------------------------------------------------------------
(* Properties of the numeric kernels.                                      *)

NumericCalls == {"binary_numeric", "add_scalar", "sub_scalar", "mul_scalar", "div_scalar"}

\* The right operand as an array, and the operator a call stands for.
RhsArray == IF IsScalar(rhs) THEN ConstantOf(rhs, ArrayLen(lhs)) ELSE rhs

CalledOp ==
    CASE pc = "add_scalar" -> "Add"
      [] pc = "sub_scalar" -> "Sub"
      [] pc = "mul_scalar" -> "Mul"
      [] pc = "div_scalar" -> "Div"
      [] OTHER -> op

\* Row i of the point-wise result l op r.
Pointwise(operator, l, r) ==
    LET ls == into_canonical(l)
        rs == into_canonical(r)
    IN  [i \in 1..Len(ls) |->
            IF ls[i].valid /\ rs[i].valid
            THEN Elem(TRUE, Arith(operator, ls[i].v, rs[i].v))
            ELSE NullElem]

\* l op r is defined at every position (no overflow, no division by zero).
Defined(operator, l, r) ==
    LET ls == into_canonical(l)
        rs == into_canonical(r)
    IN  \A i \in 1..Len(ls) :
            ls[i].valid /\ rs[i].valid
                => ~ArithFails(operator, l.dtype.ptype, ls[i].v, rs[i].v)

SameLenAndDType(l, r) ==
    /\ ArrayLen(l) = ArrayLen(r)
    /\ l.dtype.kind = "Primitive"
    /\ l.dtype = r.dtype

\* C1: for two arrays of equal length and primitive dtype, binary_numeric
\* yields lhs[i] op rhs[i] at every position, whichever path (lhs kernel,
\* rhs kernel, Arrow fallback) handled the call; the operands are never
\* swapped, also not for Sub and Div.
C1_ResultIsLhsOpRhs ==
    (pc = "binary_numeric" /\ SameLenAndDType(lhs, rhs) /\ Defined(op, lhs, rhs))
        => /\ out.ok
           /\ into_canonical(out.array) = Pointwise(op, lhs, rhs)

\* C2: two Primitive arrays of the same ptype and length, of any two
\* nullabilities, are accepted: the call succeeds (the arithmetic being
\* defined at every position, in either operand order) with a result of
\* length a.len and dtype Primitive(ptype, a.nullable \/ b.nullable).
C2_AnyNullabilitiesAccepted ==
    (/\ pc = "binary_numeric"
     /\ ArrayLen(lhs) = ArrayLen(rhs)
     /\ lhs.dtype.kind = "Primitive" /\ rhs.dtype.kind = "Primitive"
     /\ lhs.dtype.ptype = rhs.dtype.ptype
     /\ Defined(op, lhs, rhs) /\ Defined(op, rhs, lhs))
        => /\ out.ok
           /\ ArrayLen(out.array) = ArrayLen(lhs)
           /\ out.array.dtype =
                Primitive(lhs.dtype.ptype, lhs.dtype.nullable \/ rhs.dtype.nullable)

\* C3: div_scalar(a, s) is a division: the result at every position i is
\* a[i] / s.
C3_DivScalarDivides ==
    (pc = "div_scalar" /\ SameLenAndDType(lhs, RhsArray) /\ Defined("Div", lhs, RhsArray))
        => /\ out.ok
           /\ into_canonical(out.array) = Pointwise("Div", lhs, RhsArray)

\* C4: when the operands differ in length, or are not both Primitive of the
\* same ptype, the call returns an error from the argument checks: no
\* kernel and no Arrow fallback ran, and nothing panicked.
C4_MalformedArgumentsRejected ==
    (/\ pc \in NumericCalls
     /\ \/ ArrayLen(lhs) # ArrayLen(RhsArray)
        \/ lhs.dtype.kind # "Primitive"
        \/ RhsArray.dtype.kind # "Primitive"
        \/ lhs.dtype.ptype # RhsArray.dtype.ptype)
        => /\ ~out.ok
           /\ out.path = "check"
           /\ out.err # "panic"

\* A U8 array minus an I8 scalar was rejected.
C4_Witness ==
    /\ pc = "sub_scalar"
    /\ lhs.dtype.ptype = "U8" /\ rhs.dtype.ptype = "I8"
    /\ ArrayLen(lhs) = MaxLen
    /\ ~out.ok /\ out.path = "check"

\* C9: with a Chunked left operand the result keeps the chunking: it is a
\* Chunked array with the chunk offsets of the left operand, chunk k is
\* binary_numeric(chunk k, slice(rhs, offsets[k], offsets[k+1]), op), and
\* against a flat or constant right side its rows are lhs[i] op rhs[i]
\* (the call succeeding wherever that is defined).
C9_ChunkingKept ==
    (pc \in {"binary_numeric", "sub_scalar"}
        /\ lhs.encoding = "chunked" /\ SameLenAndDType(lhs, RhsArray))
        => /\ out.ok =>
                /\ out.path = "lhs_kernel"
                /\ out.array.encoding = "chunked"
                /\ out.array.nchunks = lhs.nchunks
                /\ out.array.chunk_offsets = lhs.chunk_offsets
                /\ \A k \in 1..lhs.nchunks :
                      out.array.chunks[k] =
                          binary_numeric(lhs.chunks[k],
                                         slice(RhsArray, lhs.chunk_offsets[k],
                                               lhs.chunk_offsets[k + 1]),
                                         CalledOp).array
           /\ (RhsArray.encoding # "chunked" /\ Defined(CalledOp, lhs, RhsArray))
                => /\ out.ok
                   /\ into_canonical(out.array) = Pointwise(CalledOp, lhs, RhsArray)

\* Chunks [1][2] minus the scalar 1 gave the chunks [0][1].
C9_Witness ==
    /\ pc = "sub_scalar"
    /\ lhs.encoding = "chunked" /\ lhs.nchunks = 2
    /\ into_canonical(lhs) = <<Elem(TRUE, 1), Elem(TRUE, 2)>>
    /\ rhs.value = Elem(TRUE, 1) /\ rhs.dtype = lhs.dtype
    /\ out.ok /\ out.array.encoding = "chunked"
    /\ [k \in 1..2 |-> into_canonical(out.array.chunks[k])]
            = <<(<<Elem(TRUE, 0)>>), (<<Elem(TRUE, 1)>>)>>

----------------------------------------------------------------------------
(* ChunkedArray::rechunk.                                                  *)

\* nbytes of a canonical chunk: its buffer of native-width values.
nbytes(c) == ArrayLen(c) * byte_width(c.dtype.ptype)

\* ChunkedArray::try_new(chunks_to_combine, dtype)?.into_canonical()?.into()
Combine(chunks_to_combine, dt) ==
    LET res == try_new(chunks_to_combine, dt)
    IN  IF res.ok THEN Ok(CanonicalArray(res.array)) ELSE res

\* The first test with >= for >: a run is closed on reaching a target.
ShouldFlush_at_cap(new_chunk_n_bytes, new_chunk_n_elements, n_bytes, n_elements, target_bytesize, target_rowsize, chunks_to_combine) ==
    /\ \/ new_chunk_n_bytes + n_bytes >= target_bytesize
       \/ new_chunk_n_elements + n_elements >= target_rowsize
    /\ chunks_to_combine # <<>>

\* The loop's first test: the accumulator is emitted before this chunk.
ShouldFlush(new_chunk_n_bytes, new_chunk_n_elements, n_bytes, n_elements, target_bytesize, target_rowsize, chunks_to_combine) ==
    /\ \/ new_chunk_n_bytes + n_bytes > target_bytesize
       \/ new_chunk_n_elements + n_elements > target_rowsize
    /\ chunks_to_combine # <<>>

\* The loop's second test: the chunk is larger than a target on its own.
TooBig(n_bytes, n_elements, target_bytesize, target_rowsize) ==
    n_bytes > target_bytesize \/ n_elements > target_rowsize

\* After the loop without the flush of what is still accumulated.
FinishRechunk_no_flush(new_chunks, chunks_to_combine, dt) == try_new(new_chunks, dt)

\* After the loop: the accumulator, if any, is the last chunk.
FinishRechunk(new_chunks, chunks_to_combine, dt) ==
    IF chunks_to_combine # <<>>
    THEN LET last == Combine(chunks_to_combine, dt)
         IN  IF last.ok THEN try_new(Append(new_chunks, last.array), dt) ELSE last
    ELSE try_new(new_chunks, dt)

RECURSIVE RechunkLoop(_, _, _, _, _, _, _, _)
RechunkLoop(a, k, target_bytesize, target_rowsize, new_chunks, chunks_to_combine, new_chunk_n_bytes, new_chunk_n_elements) ==
    IF k > a.nchunks
    THEN FinishRechunk(new_chunks, chunks_to_combine, a.dtype)
    ELSE LET c == chunk(a, k - 1).array
             n_bytes == nbytes(c)
             n_elements == ArrayLen(c)
             flush == ShouldFlush(new_chunk_n_bytes, new_chunk_n_elements, n_bytes,
                                  n_elements, target_bytesize, target_rowsize,
                                  chunks_to_combine)
             combined == Combine(chunks_to_combine, a.dtype)
             new_chunks1 == IF flush THEN Append(new_chunks, combined.array) ELSE new_chunks
             combine1 == IF flush THEN <<>> ELSE chunks_to_combine
             bytes1 == IF flush THEN 0 ELSE new_chunk_n_bytes
             elements1 == IF flush THEN 0 ELSE new_chunk_n_elements
         IN  IF flush /\ ~combined.ok THEN combined
             ELSE IF TooBig(n_bytes, n_elements, target_bytesize, target_rowsize)
             THEN RechunkLoop(a, k + 1, target_bytesize, target_rowsize,
                              Append(new_chunks1, c), combine1, bytes1, elements1)
             ELSE RechunkLoop(a, k + 1, target_bytesize, target_rowsize,
                              new_chunks1, Append(combine1, c),
                              bytes1 + n_bytes, elements1 + n_elements)

rechunk(a, target_bytesize, target_rowsize) ==
    RechunkLoop(a, 1, target_bytesize, target_rowsize, <<>>, <<>>, 0, 0)

----------------------------------------------------------------------------
(* Calls on a ChunkedArray.                                                *)

\* Rows first..last of the table whose row r holds the value r; in a nullable
\* table the even rows are null.
TableRows(dt, first, last) ==
    [i \in 1..(last - first + 1) |->
        LET r == first + i - 1 IN Elem(~dt.nullable \/ r % 2 = 1, r)]

\* The table cut into chunks of the given lengths.
TableChunks(dt, lens) ==
    LET offs == ScanOffsets(<<0>> \o lens, 0)
    IN  [k \in 1..Len(lens) |-> PrimitiveArray(dt, TableRows(dt, offs[k] + 1, offs[k + 1]))]

ChunkShapes == SeqUpTo(0..MaxChunkLen, MaxNChunks)
ChunkDTypes == {Primitive("U8", FALSE), Primitive("U16", FALSE), Primitive("U8", TRUE)}

NumericIdle ==
    /\ lhs = <<>>
    /\ rhs = <<>>
    /\ op = "-"

InitChunked ==
    /\ \E dt \in ChunkDTypes, lens \in ChunkShapes :
          /\ dtype = dt
          /\ \/ chunks = TableChunks(dt, lens)
             \/ \E j \in 1..Len(lens), bad \in ChunkDTypes \ {dt} :
                   chunks = [TableChunks(dt, lens) EXCEPT ![j].dtype = bad]
    /\ array = NoArray
    /\ args = <<>>
    /\ out = NoResult
    /\ pc = "init"
    /\ NumericIdle
    /\ StreamIdle

TryNew ==
    /\ pc = "init"
    /\ array' = try_new(chunks, dtype)
    /\ pc' = "try_new"
    /\ UNCHANGED <<lhs, rhs, op, chunks, dtype, args, out, StreamVars>>

\* Arrays are immutable: each behaviour makes one call on the array built.
Built == pc = "try_new" /\ array.ok

Called(name, a, value) ==
    /\ args' = a
    /\ out' = value
    /\ pc' = name
    /\ UNCHANGED <<lhs, rhs, op, chunks, dtype, array, StreamVars>>

Chunk ==
    /\ Built
    /\ \E idx \in 0..(array.array.nchunks + 1) :
          Called("chunk", [idx |-> idx], chunk(array.array, idx))

FindChunkIdx ==
    /\ Built
    /\ \E index \in 0..(array.array.len - 1) :
          Called("find_chunk_idx", [index |-> index], find_chunk_idx(array.array, index))

IsValid ==
    /\ Built
    /\ \E index \in 0..(array.array.len - 1) :
          Called("is_valid", [index |-> index], is_valid(array.array, index))

ScalarAt ==
    /\ Built
    /\ \E index \in 0..(array.array.len - 1) :
          Called("scalar_at", [index |-> index], scalar_at(array.array, index))

Rechunk ==
    /\ Built
    /\ \E target_bytesize \in 0..MaxTarget, target_rowsize \in 0..MaxTarget :
          Called("rechunk",
                 [target_bytesize |-> target_bytesize, target_rowsize |-> target_rowsize],
                 rechunk(array.array, target_bytesize, target_rowsize))

NextChunked == TryNew \/ Chunk \/ FindChunkIdx \/ IsValid \/ ScalarAt \/ Rechunk

SpecChunked == InitChunked /\ [][NextChunked]_vars

----------------------------------------------------------------------------
(* Properties of ChunkedArray.                                             *)

InputLens == [k \in 1..Len(chunks) |-> ArrayLen(chunks[k])]
OutputLens(a) == [k \in 1..a.nchunks |-> ArrayLen(a.chunks[k])]

\* C5: rechunk succeeds and the concatenation of the output chunks is the
\* concatenation of the input chunks: same length, same rows, same order.
C5_RechunkKeepsRows ==
    pc = "rechunk"
        => /\ out.ok
           /\ out.array.len = array.array.len
           /\ into_canonical(out.array) = into_canonical(array.array)

\* An array with an empty chunk and a chunk above the row target was
\* rechunked into fewer chunks holding the same rows.
C5_Witness ==
    /\ pc = "rechunk"
    /\ InputLens = <<0, 1, 3>>
    /\ args.target_rowsize = 2
    /\ out.ok /\ out.array.nchunks = 2
    /\ into_canonical(out.array) = TableRows(dtype, 1, 4)

\* Groupings of the chunks 1..n into runs of consecutive chunks: g[k] is
\* the number of the run chunk k belongs to.
Groupings(n) ==
    {g \in [1..n -> 1..n] :
        /\ n > 0 => g[1] = 1
        /\ \A k \in 1..(n - 1) : g[k + 1] \in {g[k], g[k] + 1}}

Members(g, j) == {k \in DOMAIN g : g[k] = j}
First(S) == CHOOSE k \in S : \A m \in S : k <= m
Last(S) == CHOOSE k \in S : \A m \in S : m <= k

RECURSIVE SumOver(_, _)
SumOver(f, S) ==
    IF S = {} THEN 0 ELSE LET k == CHOOSE x \in S : TRUE IN f[k] + SumOver(f, S \ {k})

\* g is the greedy left-to-right grouping of the chunks cs under the targets.
IsGreedy(g, cs, target_bytesize, target_rowsize) ==
    LET n == Len(cs)
        rows == [k \in 1..n |-> ArrayLen(cs[k])]
        bytes == [k \in 1..n |-> ArrayLen(cs[k]) * byte_width(cs[k].dtype.ptype)]
        big(k) == rows[k] > target_rowsize \/ bytes[k] > target_bytesize
    IN  \A j \in {g[k] : k \in 1..n} :
            LET S == Members(g, j)
            IN  \/ S = {First(S)} /\ big(First(S))
                \/ /\ \A k \in S : ~big(k)
                   /\ SumOver(rows, S) <= target_rowsize
                   /\ SumOver(bytes, S) <= target_bytesize
                   /\ Last(S) < n =>
                        \/ SumOver(rows, S) + rows[Last(S) + 1] > target_rowsize
                        \/ SumOver(bytes, S) + bytes[Last(S) + 1] > target_bytesize

\* The output chunks of a grouping: a run of one chunk above a target is
\* that chunk, any other run the merge of its chunks.
GroupedChunks(g, cs, dt) ==
    LET n == Len(cs)
        m == IF n = 0 THEN 0 ELSE g[n]
    IN  [j \in 1..m |->
            LET S == Members(g, j)
            IN  PrimitiveArray(dt, Concat([i \in 1..Cardinality(S) |->
                                              cs[First(S) + i - 1].elems]))]

\* C6: rechunk produces the greedy left-to-right grouping: a chunk above a
\* target is an output chunk of its own; every other output chunk merges a
\* maximal run of consecutive chunks whose summed rows and bytes stay within
\* the targets, closed only when the next chunk would exceed a target or
\* the input ends.
C6_RechunkIsGreedy ==
    pc = "rechunk"
        => /\ out.ok
           /\ \E g \in Groupings(Len(chunks)) :
                /\ IsGreedy(g, chunks, args.target_bytesize, args.target_rowsize)
                /\ out.array.chunks = GroupedChunks(g, chunks, dtype)

\* Chunks of 3, 1 and 1 rows under a row target of 2 gave chunks of 3 and 2.
C6_Witness ==
    /\ pc = "rechunk"
    /\ InputLens = <<3, 1, 1>>
    /\ args.target_rowsize = 2 /\ args.target_bytesize = MaxTarget
    /\ dtype.ptype = "U8"
    /\ out.ok /\ OutputLens(out.array) = <<3, 2>>

\* C7: for every index i < len, empty chunks anywhere, find_chunk_idx(i)
\* is (c, k) with c < nchunks, offsets[c] <= i < offsets[c+1] and
\* k = i - offsets[c]; is_valid(i) and scalar_at(i) answer for the row i.
C7_FindChunkIdx ==
    /\ pc = "find_chunk_idx" =>
          LET c == out[1]
              offsets == array.array.chunk_offsets
          IN  /\ c < array.array.nchunks
              /\ offsets[c + 1] <= args.index
              /\ args.index < offsets[c + 2]
              /\ out[2] = args.index - offsets[c + 1]
    /\ pc = "is_valid" => out = Concat([k \in 1..Len(chunks) |-> chunks[k].elems])[args.index + 1].valid
    /\ pc = "scalar_at" => out = Concat([k \in 1..Len(chunks) |-> chunks[k].elems])[args.index + 1]

\* Index 0 of chunks of 0, 1 and 0 rows was found in chunk 1.
C7_Witness ==
    /\ pc = "find_chunk_idx"
    /\ array.array.chunk_offsets = <<0, 0, 1, 1>>
    /\ args.index = 0
    /\ out = <<1, 0>>

\* C8: try_new fails with MismatchedTypes when a chunk's dtype differs from
\* the given one; otherwise the offsets have nchunks + 1 entries, start at
\* 0, grow by each chunk's length, and the length is the last offset;
\* chunk(idx) is an error for idx >= nchunks and otherwise the child idx of
\* length offsets[idx+1] - offsets[idx].
C8_TryNewAndChunk ==
    /\ pc # "init" =>
          IF \E k \in 1..Len(chunks) : chunks[k].dtype # dtype
          THEN ~array.ok /\ array.err = "MismatchedTypes"
          ELSE LET a == array.array
               IN  /\ array.ok
                   /\ a.nchunks = Len(chunks)
                   /\ Len(a.chunk_offsets) = a.nchunks + 1
                   /\ a.chunk_offsets[1] = 0
                   /\ \A k \in 1..a.nchunks :
                         a.chunk_offsets[k + 1] - a.chunk_offsets[k] = ArrayLen(chunks[k])
                   /\ a.len = a.chunk_offsets[a.nchunks + 1]
    /\ pc = "chunk" =>
          IF args.idx >= array.array.nchunks
          THEN ~out.ok
          ELSE /\ out.ok
               /\ out.array = chunks[args.idx + 1]
               /\ out.len = array.array.chunk_offsets[args.idx + 2]
                                - array.array.chunk_offsets[args.idx + 1]
               /\ out.len = ArrayLen(out.array)

\* chunk(nchunks) of an array of MaxNChunks chunks, one of them empty, was
\* an error.
C8_Witness ==
    /\ pc = "chunk"
    /\ array.ok /\ array.array.nchunks = MaxNChunks
    /\ \E k \in 1..MaxNChunks : array.array.chunk_offsets[k] = array.array.chunk_offsets[k + 1]
    /\ args.idx = array.array.nchunks
    /\ ~out.ok

----------------------------------------------------------------------------
(* compute::binary_boolean and the Chunked kernel.                         *)

BinaryOperator == {"And", "Or", "AndKleene", "OrKleene"}

\* One position of Arrow's boolean kernels: and / or give null when either
\* side is null; the Kleene forms let a valid false (And) or true (Or) decide.
BoolOp(operator, a, b) ==
    LET both == a.valid /\ b.valid
        conj == IF a.v = 1 /\ b.v = 1 THEN 1 ELSE 0
        disj == IF a.v = 1 \/ b.v = 1 THEN 1 ELSE 0
    IN  CASE operator = "And" -> IF both THEN Elem(TRUE, conj) ELSE NullElem
          [] operator = "Or" -> IF both THEN Elem(TRUE, disj) ELSE NullElem
          [] operator = "AndKleene" ->
                IF both THEN Elem(TRUE, conj)
                ELSE IF (a.valid /\ a.v = 0) \/ (b.valid /\ b.v = 0) THEN Elem(TRUE, 0)
                ELSE NullElem
          [] OTHER ->
                IF both THEN Elem(TRUE, disj)
                ELSE IF (a.valid /\ a.v = 1) \/ (b.valid /\ b.v = 1) THEN Elem(TRUE, 1)
                ELSE NullElem

\* The canonical kernel: both sides as Arrow data, the result nullable when
\* either side is.
arrow_boolean(l, r, operator) ==
    LET ls == into_canonical(l)
        rs == into_canonical(r)
    IN  Ok(BoolArray(Bool(is_nullable(l.dtype) \/ is_nullable(r.dtype)),
                     [i \in 1..Len(ls) |-> BoolOp(operator, ls[i], rs[i])]))

\* Which encodings register a binary_boolean kernel: Chunked does, the
\* canonical Bool encoding does not.
binary_boolean_fn(encoding) == encoding = "chunked"

RECURSIVE binary_boolean(_, _, _)

\* The loop with `idx` never advanced: every chunk meets the head of rhs.
RECURSIVE ChunkedBinaryBooleanLoop_head(_, _, _, _, _, _, _)
ChunkedBinaryBooleanLoop_head(l, r, operator, k, idx, cs, nullability) ==
    IF k > l.nchunks
    THEN try_new(cs, Bool(nullability))
    ELSE LET c == chunk(l, k - 1).array
             result == binary_boolean(c, slice(r, 0, ArrayLen(c)), operator)
         IN  IF ~result.ok THEN result
             ELSE ChunkedBinaryBooleanLoop_head(l, r, operator, k + 1, 0,
                                                Append(cs, result.array),
                                                result.array.dtype.nullable)

\* The loop of BinaryBooleanFn<ChunkedArray>: chunk k against the slice
\* [idx, idx + chunk.len) of rhs; the dtype is that of the last result.
RECURSIVE ChunkedBinaryBooleanLoop(_, _, _, _, _, _, _)
ChunkedBinaryBooleanLoop(l, r, operator, k, idx, cs, nullability) ==
    IF k > l.nchunks
    THEN try_new(cs, Bool(nullability))
    ELSE LET c == chunk(l, k - 1).array
             sliced == slice(r, idx, idx + ArrayLen(c))
             result == binary_boolean(c, sliced, operator)
         IN  IF ~result.ok THEN result
             ELSE ChunkedBinaryBooleanLoop(l, r, operator, k + 1, idx + ArrayLen(c),
                                           Append(cs, result.array),
                                           result.array.dtype.nullable)

\* BinaryBooleanFn<ChunkedArray>::binary_boolean(lhs, rhs, op).
ChunkedBinaryBoolean(l, r, operator) ==
    ChunkedBinaryBooleanLoop(l, r, operator, 1, 0, <<>>, TRUE)

\* The dispatcher: the argument checks, the left kernel, the right kernel,
\* the canonical kernel.
binary_boolean(l, r, operator) ==
    IF ArrayLen(l) # ArrayLen(r)
    THEN Err("different lengths")
    ELSE IF l.dtype.kind # "Bool" \/ r.dtype.kind # "Bool"
    THEN Err("not boolean")
    ELSE IF binary_boolean_fn(l.encoding)
    THEN ChunkedBinaryBoolean(l, r, operator)
    ELSE IF binary_boolean_fn(r.encoding)
    THEN ChunkedBinaryBoolean(r, l, operator)
    ELSE arrow_boolean(l, r, operator)

\* A chunked non-nullable left side against any right side of its length,
\* and a chunked nullable left side against a flat right side.
BooleanOperands(l, r) ==
    \E n \in 0..MaxLen :
        \/ /\ l \in ChunkedArrays(Bool(FALSE), n)
           /\ \E nullable \in BOOLEAN :
                 r \in FlatArrays(Bool(nullable), n) \cup ChunkedArrays(Bool(nullable), n)
                           \cup ConstantArrays(Bool(nullable), n)
        \/ /\ l \in ChunkedArrays(Bool(TRUE), n)
           /\ r \in FlatArrays(Bool(FALSE), n)

InitBoolean ==
    /\ BooleanOperands(lhs, rhs)
    /\ op \in BinaryOperator
    /\ ChunkedIdle
    /\ StreamIdle
    /\ out = NoArray
    /\ pc = "init"

BinaryBoolean ==
    /\ pc = "init"
    /\ Returned("binary_boolean", binary_boolean(lhs, rhs, op))

NextBoolean == BinaryBoolean

SpecBoolean == InitBoolean /\ [][NextBoolean]_vars

\* C10: binary_boolean with a Chunked left operand and a right operand of
\* the same length, flat or chunked at any boundaries, returns a Bool array
\* of that length whose value at every position i is lhs[i] op rhs[i]: the
\* operator applied to the two flattened arrays.
C10_ChunkedBooleanIsPointwise ==
    (pc = "binary_boolean" /\ lhs.encoding = "chunked" /\ ArrayLen(lhs) = ArrayLen(rhs))
        => /\ out.ok
           /\ out.array.dtype.kind = "Bool"
           /\ ArrayLen(out.array) = ArrayLen(lhs)
           /\ into_canonical(out.array) =
                [i \in 1..ArrayLen(lhs) |->
                    BoolOp(op, into_canonical(lhs)[i], into_canonical(rhs)[i])]
           /\ into_canonical(out.array) =
                arrow_boolean(CanonicalArray(lhs), CanonicalArray(rhs), op).array.elems

\* Chunks [true][false] or-ed with the single chunk [false, true] gave
\* [true, true].
C10_Witness ==
    /\ pc = "binary_boolean" /\ op = "Or"
    /\ lhs.encoding = "chunked" /\ OutputLens(lhs) = <<1, 1>>
    /\ rhs.encoding = "chunked" /\ OutputLens(rhs) = <<2>>
    /\ into_canonical(lhs) = <<Elem(TRUE, 1), Elem(TRUE, 0)>>
    /\ into_canonical(rhs) = <<Elem(TRUE, 0), Elem(TRUE, 1)>>
    /\ out.ok
    /\ into_canonical(out.array) = <<Elem(TRUE, 1), Elem(TRUE, 1)>>

----------------------------------------------------------------------------
(* Filter expressions and expr_project (layouts/read/expr_project.rs).     *)

\* Longest field list of a Select, and longest projection.
MaxSelect == 2
MaxProjection == 2

Fields == {"a", "b", "c"}

\* Lists of distinct fields of at most n entries.
FieldLists(n) ==
    {fs \in SeqUpTo(Fields, n) : \A i, j \in 1..Len(fs) : i # j => fs[i] # fs[j]}

\* The expression kinds of vortex_expr.
Operator == {"And", "Or", "Lt"}
Literal(v) == [kind |-> "Literal", value |-> v]
Identity == [kind |-> "Identity"]
Column(f) == [kind |-> "Column", field |-> f]
Include(fs) == [kind |-> "Select", include |-> TRUE, fields |-> fs]
Exclude(fs) == [kind |-> "Select", include |-> FALSE, fields |-> fs]
BinaryExpr(l, o, r) == [kind |-> "BinaryExpr", lhs |-> l, op |-> o, rhs |-> r]

\* Option<Arc<dyn VortexExpr>>.
Some(e) == [some |-> TRUE, expr |-> e]
None == [some |-> FALSE, expr |-> <<>>]

\* slice::contains and the set of a list's entries.
contains(fs, f) == \E i \in 1..Len(fs) : fs[i] = f
FieldSet(fs) == {fs[i] : i \in 1..Len(fs)}

\* VortexExpr::references: the fields an expression names.
RECURSIVE references(_)
references(e) ==
    CASE e.kind = "Column" -> {e.field}
      [] e.kind = "Select" -> FieldSet(e.fields)
      [] e.kind = "BinaryExpr" -> references(e.lhs) \cup references(e.rhs)
      [] OTHER -> {}

\* The Column branch without the projection test: the column is kept.
ProjectColumn_kept(c, projection) ==
    Some(IF Len(projection) = 1 THEN Identity ELSE c)

\* The Column branch: kept iff its field is projected, Identity under a
\* projection of one field.
ProjectColumn(c, projection) ==
    IF contains(projection, c.field)
    THEN Some(IF Len(projection) = 1 THEN Identity ELSE c)
    ELSE None

\* The Select branch: Include keeps its projected fields, Exclude the
\* projected fields it does not name; a projection of one field gives
\* Identity before the list is looked at.
ProjectSelect(s, projection) ==
    LET fields == IF s.include
                  THEN SelectSeq(s.fields, LAMBDA f : contains(projection, f))
                  ELSE SelectSeq(projection, LAMBDA f : ~contains(s.fields, f))
    IN  IF Len(projection) = 1
        THEN Some(Identity)
        ELSE IF fields # <<>> THEN Some(Include(fields)) ELSE None

\* Some field named by both sides is projected.
SharedProjected(bexp, projection) ==
    \E f \in references(bexp.rhs) \cap references(bexp.lhs) : contains(projection, f)

\* The And branch without the test on shared fields.
ProjectAnd_keeps_side(bexp, lhs_proj, rhs_proj, projection) ==
    CASE lhs_proj.some /\ rhs_proj.some ->
            Some(BinaryExpr(lhs_proj.expr, bexp.op, rhs_proj.expr))
      [] lhs_proj.some /\ ~rhs_proj.some -> lhs_proj
      [] ~lhs_proj.some /\ rhs_proj.some -> rhs_proj
      [] OTHER -> None

\* The And branch: the match on (lhs_proj, rhs_proj).
ProjectAnd(bexp, lhs_proj, rhs_proj, projection) ==
    CASE lhs_proj.some /\ rhs_proj.some ->
            Some(BinaryExpr(lhs_proj.expr, bexp.op, rhs_proj.expr))
      [] lhs_proj.some /\ ~rhs_proj.some ->
            IF ~SharedProjected(bexp, projection) THEN lhs_proj ELSE None
      [] ~lhs_proj.some /\ rhs_proj.some ->
            IF ~SharedProjected(bexp, projection) THEN rhs_proj ELSE None
      [] OTHER -> None

\* The other operators treated as And is: the side that projects is kept.
ProjectBinary_keeps_side(bexp, lhs_proj, rhs_proj) ==
    CASE lhs_proj.some /\ rhs_proj.some ->
            Some(BinaryExpr(lhs_proj.expr, bexp.op, rhs_proj.expr))
      [] lhs_proj.some /\ ~rhs_proj.some -> lhs_proj
      [] ~lhs_proj.some /\ rhs_proj.some -> rhs_proj
      [] OTHER -> None

\* The branch of the other operators: `lhs_proj?` and `rhs_proj?`.
ProjectBinary(bexp, lhs_proj, rhs_proj) ==
    IF lhs_proj.some /\ rhs_proj.some
    THEN Some(BinaryExpr(lhs_proj.expr, bexp.op, rhs_proj.expr))
    ELSE None

RECURSIVE expr_project(_, _)
expr_project(expr, projection) ==
    CASE expr.kind = "Literal" -> Some(expr)
      [] expr.kind = "Select" -> ProjectSelect(expr, projection)
      [] expr.kind = "Column" -> ProjectColumn(expr, projection)
      [] expr.kind = "BinaryExpr" ->
            LET lhs_proj == expr_project(expr.lhs, projection)
                rhs_proj == expr_project(expr.rhs, projection)
            IN  IF expr.op = "And"
                THEN ProjectAnd(expr, lhs_proj, rhs_proj, projection)
                ELSE ProjectBinary(expr, lhs_proj, rhs_proj)
      [] OTHER -> None

\* The expressions projected: leaves, binary expressions of leaves, and
\* binary expressions of binary expressions of literals and columns.
Atoms == {Literal(5)} \cup {Column(f) : f \in Fields}
Selects ==
    {Include(fs) : fs \in FieldLists(MaxSelect)} \cup {Exclude(fs) : fs \in FieldLists(MaxSelect)}
Leaves == Atoms \cup Selects
Comparisons == {BinaryExpr(l, o, r) : l \in Atoms, o \in Operator, r \in Atoms}
Exprs ==
    Leaves
        \cup {BinaryExpr(l, o, r) : l \in Leaves, o \in Operator, r \in Leaves}
        \cup {BinaryExpr(l, o, r) : l \in Atoms \cup Comparisons, o \in Operator,
                                    r \in Atoms \cup Comparisons}

InitProject ==
    /\ args \in [expr : Exprs, projection : FieldLists(MaxProjection)]
    /\ out = None
    /\ pc = "init"
    /\ NumericIdle
    /\ StreamIdle
    /\ chunks = <<>>
    /\ dtype = Primitive("U8", FALSE)
    /\ array = NoArray

ExprProject ==
    /\ pc = "init"
    /\ out' = expr_project(args.expr, args.projection)
    /\ pc' = "expr_project"
    /\ UNCHANGED <<lhs, rhs, op, chunks, dtype, array, args, StreamVars>>

NextProject == ExprProject

SpecProject == InitProject /\ [][NextProject]_vars

----------------------------------------------------------------------------
(* Properties of expr_project.                                             *)

\* C11: when expr_project returns an expression, every field that
\* expression references is a field of the projection.
C11_OnlyProjectedFields ==
    (pc = "expr_project" /\ out.some)
        => references(out.expr) \subseteq FieldSet(args.projection)

\* (a < c) AND b under the projection [a, b] left only b.
C11_Witness ==
    /\ pc = "expr_project"
    /\ args.expr = BinaryExpr(BinaryExpr(Column("a"), "Lt", Column("c")), "And", Column("b"))
    /\ args.projection = <<"a", "b">>
    /\ out = Some(Column("b"))

\* The fields an expression returned for a Select yields from a batch of
\* the projected fields.
Selected(e, projection) ==
    IF e.kind = "Identity" THEN FieldSet(projection) ELSE FieldSet(e.fields)

\* The projected fields a Select asks for.
Intersection(s, projection) ==
    IF s.include
    THEN FieldSet(s.fields) \cap FieldSet(projection)
    ELSE FieldSet(projection) \ FieldSet(s.fields)

\* C12: expr_project of a Select is the intersection with the projection:
\* Include gives the fields both included and projected, Exclude the
\* projected fields not excluded, and nothing is returned when that
\* intersection is empty, for a projection of any size (one field too).
C12_SelectIsIntersected ==
    (pc = "expr_project" /\ args.expr.kind = "Select")
        => IF Intersection(args.expr, args.projection) = {}
           THEN ~out.some
           ELSE /\ out.some
                /\ out.expr.kind \in {"Select", "Identity"}
                /\ Selected(out.expr, args.projection)
                        = Intersection(args.expr, args.projection)

\* C13: expr_project of an And: both sides project, the And of the two
\* projections; neither projects, nothing; exactly one projects, that
\* side's projection alone, unless a field referenced by both sides is
\* projected, and then nothing.
C13_AndKeepsProjectedSide ==
    (pc = "expr_project" /\ args.expr.kind = "BinaryExpr" /\ args.expr.op = "And")
        => LET l == expr_project(args.expr.lhs, args.projection)
               r == expr_project(args.expr.rhs, args.projection)
               shared == \E f \in references(args.expr.lhs) \cap references(args.expr.rhs) :
                            f \in FieldSet(args.projection)
           IN  /\ (l.some /\ r.some) => out = Some(BinaryExpr(l.expr, "And", r.expr))
               /\ (~l.some /\ ~r.some) => ~out.some
               /\ (l.some /\ ~r.some) => out = (IF shared THEN None ELSE l)
               /\ (~l.some /\ r.some) => out = (IF shared THEN None ELSE r)
               /\ (args.expr = BinaryExpr(Column("a"), "And", Column("b"))
                        /\ args.projection = <<"b">>) => out = Some(Identity)

\* (a < b) AND (5 < b) under the projection [b] was pruned.
C13_Witness ==
    /\ pc = "expr_project"
    /\ args.expr = BinaryExpr(BinaryExpr(Column("a"), "Lt", Column("b")), "And",
                              BinaryExpr(Literal(5), "Lt", Column("b")))
    /\ args.projection = <<"b">>
    /\ ~out.some

\* No Select::Exclude and no empty Select::Include occurs in e.
RECURSIVE PlainSelects(_)
PlainSelects(e) ==
    CASE e.kind = "Select" -> e.include /\ e.fields # <<>>
      [] e.kind = "BinaryExpr" -> PlainSelects(e.lhs) /\ PlainSelects(e.rhs)
      [] OTHER -> TRUE

\* What both forms of C14 say of the two sides.
BothSidesProject ==
    LET l == expr_project(args.expr.lhs, args.projection)
        r == expr_project(args.expr.rhs, args.projection)
    IN  IF l.some /\ r.some
        THEN out = Some(BinaryExpr(l.expr, args.expr.op, r.expr))
        ELSE ~out.some

----------------------------------------------------------------------------
(* The file array stream (vortex-file/src/read/stream.rs): the splits, the *)
(* two buffered layout readers and read_all.                               *)

\* Largest row count of a file.
MaxRows == 3

\* A layout reader: the rows at which its chunks start (0 among them), the
\* row count and the dtype of what it reads.
LayoutReader(name, boundaries, row_count, dt) ==
    [present |-> TRUE, name |-> name, boundaries |-> boundaries,
     row_count |-> row_count, dtype |-> dt]
NoReader == [present |-> FALSE, name |-> "none", boundaries |-> {}, row_count |-> 0,
             dtype |-> Primitive("U8", FALSE)]

\* LayoutReader::add_splits(row_offset, splits): the reader registers its
\* row boundaries as absolute rows.
add_splits(reader, row_offset, splits) ==
    splits \cup {row_offset + b : b \in reader.boundaries}

\* try_new with the filter reader's splits left out.
ReaderSplits_layout_only(layout_reader, filter_reader) ==
    add_splits(layout_reader, 0, {})

\* try_new: reader_splits, filled by the layout reader and, when there is
\* one, by the filter reader.
ReaderSplits(layout_reader, filter_reader) ==
    LET reader_splits == add_splits(layout_reader, 0, {})
    IN  IF filter_reader.present
        THEN add_splits(filter_reader, 0, reader_splits)
        ELSE reader_splits

\* A BTreeSet in iteration order.
RECURSIVE SortedSeq(_)
SortedSeq(S) ==
    IF S = {} THEN <<>>
    ELSE LET m == CHOOSE x \in S : \A y \in S : x <= y
         IN  <<m>> \o SortedSeq(S \ {m})

RowMask(begin, end) == [begin |-> begin, end |-> end]

\* SplitsAccumulator::new(row_count, None), append_splits(reader_splits) and
\* its iteration: the windows of consecutive split points, row_count the last.
SplitsAccumulator(row_count, reader_splits) ==
    LET points == SortedSeq(reader_splits \cup {row_count})
    IN  [k \in 1..(Len(points) - 1) |-> RowMask(points[k], points[k + 1])]

\* BatchRead.
ReadMore(messages) == [kind |-> "ReadMore", messages |-> messages, value |-> <<>>]
Batch(value) == [kind |-> "Batch", messages |-> {}, value |-> value]

\* The messages of a reader that hold rows of the selection: one message per
\* chunk, named by the reader and the chunk's first row.
ChunkEnd(reader, b) ==
    LET later == {c \in reader.boundaries : c > b}
    IN  IF later = {} THEN reader.row_count
        ELSE CHOOSE c \in later : \A d \in later : c <= d

MessagesOf(reader, selector) ==
    {<<reader.name, b>> : b \in {c \in reader.boundaries :
                                    c < selector.end /\ ChunkEnd(reader, c) > selector.begin}}

\* What the operation yields for a selection: ReadRowMask the row mask of
\* the range, ReadArray the rows of the range.
ValueOf(reader, selector) ==
    IF reader.name = "filter"
    THEN selector
    ELSE PrimitiveArray(reader.dtype, TableRows(reader.dtype, selector.begin + 1, selector.end))

\* read_selection answering with a batch whatever the cache holds.
read_selection_no_wait(reader, selector, cache) ==
    Batch(ValueOf(reader, selector))

\* LayoutReader::read_selection(selector): the messages still missing from
\* the cache, or the batch.
read_selection(reader, selector, cache) ==
    LET missing == MessagesOf(reader, selector) \ cache
    IN  IF missing # {} THEN ReadMore(missing) ELSE Batch(ValueOf(reader, selector))

\* A queued item of a buffered reader: Pending((mask, messages)) or Ready(value).
RowMaskState(mask, read) ==
    [mask |-> mask, ready |-> read.kind = "Batch", messages |-> read.messages,
     value |-> read.value]

NoFetch == [messages |-> {}, state |-> "none"]

\* BufferedLayoutReader::new.
BufferedLayoutReader(reader) ==
    [reader |-> reader, queued |-> <<>>, in_flight |-> NoFetch, seen |-> <<>>]

\* The queue popped at the back.
pop_back(queued) ==
    [item |-> queued[Len(queued)], rest |-> SubSeq(queued, 1, Len(queued) - 1)]

\* VecDeque::pop_front.
pop_front(queued) == [item |-> Head(queued), rest |-> Tail(queued)]

\* An upstream mask arrives: it is read and queued at the back.
Enqueue(st, next_mask, cache) ==
    [st EXCEPT !.queued = Append(@, RowMaskState(next_mask,
                                        read_selection(st.reader, next_mask, cache))),
               !.seen = Append(@, next_mask)]

\* The front is pending: every pending item's messages go into one fetch.
Dispatch(st) ==
    [st EXCEPT !.in_flight =
        [messages |-> UNION {st.queued[k].messages : k \in 1..Len(st.queued)},
         state |-> "pending"]]

\* The fetch has completed: every pending item is read again.
Reread(st, cache) ==
    [st EXCEPT !.in_flight = NoFetch,
               !.queued = [k \in 1..Len(st.queued) |->
                    IF st.queued[k].ready THEN st.queued[k]
                    ELSE RowMaskState(st.queued[k].mask,
                                      read_selection(st.reader, st.queued[k].mask, cache))]]

\* read_all keeping a single batch wrapped.
read_all_chunked(items, dt) ==
    IF \E i \in 1..Len(items) : ~items[i].ok
    THEN Err(items[CHOOSE i \in 1..Len(items) :
                    ~items[i].ok /\ \A j \in 1..(i - 1) : items[j].ok].err)
    ELSE try_new([i \in 1..Len(items) |-> items[i].array], dt)

\* read_all: try_collect stops at the first error; one array is returned as
\* it is, any other number as a ChunkedArray.
read_all(items, dt) ==
    IF \E i \in 1..Len(items) : ~items[i].ok
    THEN Err(items[CHOOSE i \in 1..Len(items) :
                    ~items[i].ok /\ \A j \in 1..(i - 1) : items[j].ok].err)
    ELSE LET arrays == [i \in 1..Len(items) |-> items[i].array]
         IN  IF Len(arrays) = 1 THEN Ok(arrays[1]) ELSE try_new(arrays, dt)

----------------------------------------------------------------------------
(* The stream as a state machine.                                          *)

Boundaries(row_count) == {B \cup {0} : B \in SUBSET (1..(row_count - 1))}

StreamDTypes == {Primitive("U8", FALSE), Primitive("U8", TRUE)}

InitStream ==
    /\ \E row_count \in 0..MaxRows, dt \in StreamDTypes :
          /\ dtype = dt
          /\ \E lb \in Boundaries(row_count) :
                \/ args = [row_count |-> row_count,
                           layout_reader |-> LayoutReader("layout", lb, row_count, dt),
                           filter_reader |-> NoReader]
                \/ \E fb \in Boundaries(row_count) :
                      args = [row_count |-> row_count,
                              layout_reader |-> LayoutReader("layout", lb, row_count, dt),
                              filter_reader |-> LayoutReader("filter", fb, row_count, dt)]
    /\ StreamIdle
    /\ NumericIdle
    /\ chunks = <<>>
    /\ array = NoArray
    /\ out = NoArray
    /\ pc = "init"

StreamFrame == UNCHANGED <<lhs, rhs, op, chunks, dtype, array, args, out>>

\* VortexFileArrayStream::try_new.
OpenStream ==
    /\ pc = "init"
    /\ splits_stream' =
          [ranges |-> SplitsAccumulator(args.row_count,
                                        ReaderSplits(args.layout_reader, args.filter_reader)),
           next |-> 1]
    /\ mask_reader' = BufferedLayoutReader(args.filter_reader)
    /\ array_reader' = BufferedLayoutReader(args.layout_reader)
    /\ pc' = "streaming"
    /\ UNCHANGED <<messages_cache, emitted>>
    /\ StreamFrame

Filtered == mask_reader.reader.present
SplitsLeft == splits_stream.next <= Len(splits_stream.ranges)
Idle(st) == st.in_flight.state = "none"
NextSplit == splits_stream.ranges[splits_stream.next]

\* The reader next to the splits takes the next split range.  The mask
\* stage runs only when the array stage polls it, that is when the array
\* stage waits for no fetch.
PollSplits ==
    /\ pc = "streaming" /\ SplitsLeft /\ Idle(array_reader)
    /\ IF Filtered
       THEN /\ Idle(mask_reader)
            /\ mask_reader' = Enqueue(mask_reader, NextSplit, messages_cache)
            /\ UNCHANGED array_reader
       ELSE /\ array_reader' = Enqueue(array_reader, NextSplit, messages_cache)
            /\ UNCHANGED mask_reader
    /\ splits_stream' = [splits_stream EXCEPT !.next = @ + 1]
    /\ UNCHANGED <<messages_cache, emitted, pc>>
    /\ StreamFrame

\* The mask stage yields its front item, ready, to the array stage.
PollMasks ==
    /\ pc = "streaming" /\ Filtered
    /\ Idle(array_reader) /\ Idle(mask_reader)
    /\ mask_reader.queued # <<>>
    /\ pop_front(mask_reader.queued).item.ready
    /\ mask_reader' = [mask_reader EXCEPT !.queued = pop_front(@).rest]
    /\ array_reader' = Enqueue(array_reader, pop_front(mask_reader.queued).item.value,
                               messages_cache)
    /\ UNCHANGED <<splits_stream, messages_cache, emitted, pc>>
    /\ StreamFrame

CanDispatch(st) == Idle(st) /\ st.queued # <<>> /\ ~pop_front(st.queued).item.ready

\* A stage whose front item is pending sends its fetch to the I/O dispatcher.
DispatchMasks ==
    /\ pc = "streaming" /\ Filtered
    /\ Idle(array_reader) /\ CanDispatch(mask_reader)
    /\ mask_reader' = Dispatch(mask_reader)
    /\ UNCHANGED <<splits_stream, array_reader, messages_cache, emitted, pc>>
    /\ StreamFrame

DispatchArrays ==
    /\ pc = "streaming"
    /\ CanDispatch(array_reader)
    /\ array_reader' = Dispatch(array_reader)
    /\ UNCHANGED <<splits_stream, mask_reader, messages_cache, emitted, pc>>
    /\ StreamFrame

\* The I/O executor finishes a fetch, of either stage, at any time.
IoCompleteMasks ==
    /\ pc = "streaming" /\ mask_reader.in_flight.state = "pending"
    /\ mask_reader' = [mask_reader EXCEPT !.in_flight.state = "ok"]
    /\ UNCHANGED <<splits_stream, array_reader, messages_cache, emitted, pc>>
    /\ StreamFrame

IoCompleteArrays ==
    /\ pc = "streaming" /\ array_reader.in_flight.state = "pending"
    /\ array_reader' = [array_reader EXCEPT !.in_flight.state = "ok"]
    /\ UNCHANGED <<splits_stream, mask_reader, messages_cache, emitted, pc>>
    /\ StreamFrame

\* ... or fails it.
IoFail ==
    /\ pc = "streaming"
    /\ \/ /\ mask_reader.in_flight.state = "pending"
          /\ mask_reader' = [mask_reader EXCEPT !.in_flight.state = "error"]
          /\ UNCHANGED array_reader
       \/ /\ array_reader.in_flight.state = "pending"
          /\ array_reader' = [array_reader EXCEPT !.in_flight.state = "error"]
          /\ UNCHANGED mask_reader
    /\ UNCHANGED <<splits_stream, messages_cache, emitted, pc>>
    /\ StreamFrame

\* A polled stage finds its fetch complete: the messages go into the cache
\* and the pending items are read again.
ReceiveMasks ==
    /\ pc = "streaming" /\ Idle(array_reader)
    /\ mask_reader.in_flight.state = "ok"
    /\ messages_cache' = messages_cache \cup mask_reader.in_flight.messages
    /\ mask_reader' = Reread(mask_reader, messages_cache')
    /\ UNCHANGED <<splits_stream, array_reader, emitted, pc>>
    /\ StreamFrame

ReceiveArrays ==
    /\ pc = "streaming"
    /\ array_reader.in_flight.state = "ok"
    /\ messages_cache' = messages_cache \cup array_reader.in_flight.messages
    /\ array_reader' = Reread(array_reader, messages_cache')
    /\ UNCHANGED <<splits_stream, mask_reader, emitted, pc>>
    /\ StreamFrame

\* A polled stage finds its fetch failed: the error is the stream's next item.
ReceiveError ==
    /\ pc = "streaming"
    /\ \/ array_reader.in_flight.state = "error"
       \/ Idle(array_reader) /\ mask_reader.in_flight.state = "error"
    /\ emitted' = Append(emitted, Err("io"))
    /\ pc' = "failed"
    /\ UNCHANGED <<splits_stream, mask_reader, array_reader, messages_cache>>
    /\ StreamFrame

\* poll_next returns the front item of the array stage, ready.
Emit ==
    /\ pc = "streaming" /\ Idle(array_reader)
    /\ array_reader.queued # <<>>
    /\ pop_front(array_reader.queued).item.ready
    /\ emitted' = Append(emitted, Ok(pop_front(array_reader.queued).item.value))
    /\ array_reader' = [array_reader EXCEPT !.queued = pop_front(@).rest]
    /\ UNCHANGED <<splits_stream, mask_reader, messages_cache, pc>>
    /\ StreamFrame

\* poll_next returns None: the splits are exhausted and nothing is queued.
Finish ==
    /\ pc = "streaming" /\ ~SplitsLeft
    /\ Idle(array_reader) /\ Idle(mask_reader)
    /\ array_reader.queued = <<>> /\ mask_reader.queued = <<>>
    /\ pc' = "finished"
    /\ UNCHANGED StreamVars
    /\ StreamFrame

\* read_all on the items the stream gave until its end or its first error.
ReadAll ==
    /\ pc \in {"finished", "failed"}
    /\ out' = read_all(emitted, dtype)
    /\ pc' = "read_all"
    /\ UNCHANGED StreamVars
    /\ UNCHANGED <<lhs, rhs, op, chunks, dtype, array, args>>

NextStream ==
    \/ OpenStream \/ PollSplits \/ PollMasks
    \/ DispatchMasks \/ DispatchArrays
    \/ IoCompleteMasks \/ IoCompleteArrays \/ IoFail
    \/ ReceiveMasks \/ ReceiveArrays \/ ReceiveError
    \/ Emit \/ Finish \/ ReadAll

SpecStream == InitStream /\ [][NextStream]_vars

\* The consumer keeps polling and every fetch the dispatcher was given
\* completes.
SpecStreamLive ==
    /\ SpecStream
    /\ WF_vars(OpenStream) /\ WF_vars(PollSplits) /\ WF_vars(PollMasks)
    /\ WF_vars(DispatchMasks) /\ WF_vars(DispatchArrays)
    /\ WF_vars(IoCompleteMasks) /\ WF_vars(IoCompleteArrays)
    /\ WF_vars(ReceiveMasks) /\ WF_vars(ReceiveArrays) /\ WF_vars(ReceiveError)
    /\ WF_vars(Emit) /\ WF_vars(Finish) /\ WF_vars(ReadAll)

----------------------------------------------------------------------------
(* Properties of the file array stream.                                    *)

Open == pc \in {"streaming", "finished", "failed", "read_all"}
Ranges == splits_stream.ranges
OkItems == {k \in 1..Len(emitted) : emitted[k].ok}

Asked(st, k) == MessagesOf(st.reader, Ranges[k])

\* One answer per mask, and none before its messages are cached.
AnsweredOnceFromCache ==
    Open =>
        /\ \A k \in OkItems :
              /\ Asked(array_reader, k) \subseteq messages_cache
              /\ Filtered => Asked(mask_reader, k) \subseteq messages_cache
        /\ \A k \in 1..Len(array_reader.queued) :
              array_reader.queued[k].ready =>
                  MessagesOf(array_reader.reader, array_reader.queued[k].mask)
                        \subseteq messages_cache
        /\ Cardinality(OkItems) + Len(array_reader.queued) = Len(array_reader.seen)
        /\ \A k \in OkItems : array_reader.seen[k] = Ranges[k]
        /\ pc = "finished" =>
              /\ Len(emitted) = Len(Ranges)
              /\ array_reader.seen = Ranges

C18_ReadAllConcatenates ==
    pc = "read_all" =>
        IF OkItems # 1..Len(emitted)
        THEN /\ ~out.ok
             /\ out = Err(emitted[CHOOSE k \in 1..Len(emitted) :
                            ~emitted[k].ok /\ \A j \in 1..(k - 1) : emitted[j].ok].err)
        ELSE /\ out.ok
             /\ out.array.dtype = dtype
             /\ into_canonical(out.array) = TableRows(dtype, 1, args.row_count)
             /\ IF Len(emitted) = 1
                THEN out.array = emitted[1].array
                ELSE /\ out.array.encoding = "chunked"
                     /\ out.array.nchunks = Len(emitted)
                     /\ out.array.chunks = [k \in 1..Len(emitted) |-> emitted[k].array]

\* Three batches were read into an array of three chunks.
C18_Witness ==
    /\ pc = "read_all"
    /\ Len(emitted) = 3 /\ OkItems = 1..3
    /\ out.ok /\ out.array.encoding = "chunked" /\ out.array.nchunks = 3

----------------------------------------------------------------------------
(* SparseArray and its canonical form (array/sparse/canonical.rs).         *)

\* Largest length of a sparse array.
MaxSparseLen == 3

\* A row of a canonical array as stored: validity bit and buffer value.
Row(valid, v) == [valid |-> valid, v |-> v]

\* Patches { array_len, indices, values }: indices are rows counted from 0.
Patches(array_len, indices, values) ==
    [array_len |-> array_len, indices |-> indices, values |-> values,
     dtype |-> values.dtype]
num_patches(patches) == Len(patches.indices)

SparseArray(indices, values, len, fill_scalar) ==
    [encoding |-> "sparse", dtype |-> values.dtype, len |-> len,
     indices |-> indices, values |-> values, fill_scalar |-> fill_scalar]

\* SparseArray::resolved_patches: the patches with absolute indices.
resolved_patches(a) == Patches(a.len, a.indices, a.values)

is_null(scalar) == ~scalar.valid

\* PrimitiveArray::patch / BoolArray::patch: values and validity of the
\* patches are scattered over the array; a non-nullable validity takes only
\* non-nullable patches and a nullable one only nullable patches.
patch(a, patches) ==
    IF a.dtype.nullable # patches.dtype.nullable
    THEN Err("validity")
    ELSE Ok([a EXCEPT !.elems =
                [i \in 1..Len(a.elems) |->
                    IF \E j \in 1..num_patches(patches) : patches.indices[j] = i - 1
                    THEN patches.values.elems[CHOOSE j \in 1..num_patches(patches) :
                                                    patches.indices[j] = i - 1]
                    ELSE a.elems[i]]])

\* The validity the dense array starts with.
FillValidity(patches, fill_value) ==
    IF is_null(fill_value) THEN "AllInvalid"
    ELSE IF ~patches.dtype.nullable THEN "NonNullable" ELSE "AllValid"

\* A null fill taken for a valid default value.
canonicalize_sparse_primitives_valid(patches, fill_value) ==
    LET primitive_fill == IF is_null(fill_value) THEN 0 ELSE fill_value.v
        nullable == FillValidity(patches, fill_value) # "NonNullable"
    IN  patch(PrimitiveArray(Primitive(patches.dtype.ptype, nullable),
                             [i \in 1..patches.array_len |-> Row(TRUE, primitive_fill)]),
              patches)

canonicalize_sparse_primitives(patches, fill_value) ==
    LET primitive_fill == IF is_null(fill_value) THEN 0 ELSE fill_value.v
        validity == FillValidity(patches, fill_value)
    IN  patch(PrimitiveArray(Primitive(patches.dtype.ptype, validity # "NonNullable"),
                             [i \in 1..patches.array_len |->
                                Row(validity # "AllInvalid", primitive_fill)]),
              patches)

canonicalize_sparse_bools(patches, fill_value) ==
    LET fill_bool == IF is_null(fill_value) THEN 0 ELSE fill_value.v
        validity == FillValidity(patches, fill_value)
    IN  patch(BoolArray(Bool(validity # "NonNullable"),
                        [i \in 1..patches.array_len |->
                            Row(validity # "AllInvalid", fill_bool)]),
              patches)

\* IntoCanonical for SparseArray.
sparse_into_canonical(a) ==
    IF num_patches(resolved_patches(a)) = 0
    THEN Ok(CanonicalArray(ConstantArray(a.dtype, a.fill_scalar, a.len)))
    ELSE IF a.dtype.kind = "Bool"
    THEN canonicalize_sparse_bools(resolved_patches(a), a.fill_scalar)
    ELSE canonicalize_sparse_primitives(resolved_patches(a), a.fill_scalar)

\* Sparse arrays as SparseArray::try_new accepts them: sorted distinct
\* indices below the length, one value per index, a fill of the values'
\* dtype (null only when that is nullable).
SparseDTypes == {Primitive("I8", FALSE), Primitive("I8", TRUE), Bool(FALSE), Bool(TRUE)}

SparseRows(dt) ==
    (IF dt.kind = "Bool" THEN {Elem(TRUE, 0), Elem(TRUE, 1)} ELSE {Elem(TRUE, 1), Elem(TRUE, -1)})
        \cup (IF dt.nullable THEN {NullElem} ELSE {})

SparseFills(dt) ==
    {Elem(TRUE, 0), Elem(TRUE, 1)} \cup (IF dt.nullable THEN {NullElem} ELSE {})

SparseValues(dt, vs) ==
    IF dt.kind = "Bool" THEN BoolArray(dt, vs) ELSE PrimitiveArray(dt, vs)

SparseOf(dt, n) ==
    UNION {{SparseArray(SortedSeq(I), SparseValues(dt, vs), n, f) :
                vs \in [1..Cardinality(I) -> SparseRows(dt)], f \in SparseFills(dt)} :
           I \in SUBSET (0..(n - 1))}

SparseArrays == UNION {SparseOf(dt, n) : dt \in SparseDTypes, n \in 0..MaxSparseLen}

InitSparse ==
    /\ \E a \in SparseArrays : array = Ok(a) /\ dtype = a.dtype
    /\ chunks = <<>>
    /\ args = <<>>
    /\ out = NoArray
    /\ pc = "init"
    /\ NumericIdle
    /\ StreamIdle

IntoCanonicalSparse ==
    /\ pc = "init"
    /\ out' = sparse_into_canonical(array.array)
    /\ pc' = "into_canonical"
    /\ UNCHANGED <<lhs, rhs, op, chunks, dtype, array, args, StreamVars>>

NextSparse == IntoCanonicalSparse

SpecSparse == InitSparse /\ [][NextSparse]_vars

\* C19: the canonical form of a Sparse array of length n with indices I,
\* values V and fill f is a dense array of length n: position I[j] holds
\* V[j] and is valid exactly when V[j] is non-null; every other position
\* holds f (the default value when f is null) and is valid exactly when f
\* is non-null; with no patches it is the constant array of f.
C19_SparseCanonical ==
    pc = "into_canonical" =>
        LET a == array.array
            n == a.len
        IN  /\ out.ok
            /\ out.array.dtype = a.dtype
            /\ out.array.encoding = (IF a.dtype.kind = "Bool" THEN "bool" ELSE "primitive")
            /\ Len(out.array.elems) = n
            /\ \A j \in 1..Len(a.indices) :
                  LET r == out.array.elems[a.indices[j] + 1]
                  IN  /\ r.v = a.values.elems[j].v
                      /\ r.valid <=> a.values.elems[j].valid
            /\ \A i \in (0..(n - 1)) \ {a.indices[j] : j \in 1..Len(a.indices)} :
                  LET r == out.array.elems[i + 1]
                  IN  /\ r.v = (IF a.fill_scalar.valid THEN a.fill_scalar.v ELSE 0)
                      /\ r.valid <=> a.fill_scalar.valid
            /\ a.indices = <<>> =>
                  out.array.elems = into_canonical(ConstantArray(a.dtype, a.fill_scalar, n))

\* Indices 0 and 2 of three rows, values 1 and null, fill null: the rows
\* are 1, null, null.
C19_Witness ==
    /\ pc = "into_canonical"
    /\ array.array.dtype = Primitive("I8", TRUE)
    /\ array.array.len = 3 /\ array.array.indices = <<0, 2>>
    /\ array.array.values.elems = <<Elem(TRUE, 1), NullElem>>
    /\ ~array.array.fill_scalar.valid
    /\ out.ok /\ out.array.elems = <<Row(TRUE, 1), Row(FALSE, 0), Row(FALSE, 0)>>

----------------------------------------------------------------------------
(* BitPackedArray and its filter kernel                                    *)
(* (encodings/fastlanes/src/bitpacking/compute/filter.rs).                 *)

\* Rows of a FastLanes chunk (1024 in the source), and the number of
\* indices in a chunk above which the chunk is unpacked as a whole.
ChunkLen == 3
UNPACK_CHUNK_THRESHOLD == 1

\* A signed value as the unsigned value of the same width, and back
\* (PType::to_unsigned, reinterpret_cast); the ptypes here are 8 bits wide.
to_unsigned(ptype, v) == IF v < 0 THEN v + 256 ELSE v
reinterpret_cast(ptype, u) == IF ptype = "I8" /\ u >= 128 THEN u - 256 ELSE u

NoPatches == [array_len |-> 0, indices |-> <<>>, values |-> <<>>, dtype |-> <<>>]

BitPackedArray(dt, bit_width, offset, len, packed, validity, patches) ==
    [encoding |-> "bitpacked", dtype |-> dt, bit_width |-> bit_width,
     offset |-> offset, len |-> len, packed |-> packed, validity |-> validity,
     patches |-> patches]

\* BitPackedArray::encode: every row is packed to its low bit_width bits,
\* chunk by chunk (the last chunk padded with zeros); a valid row that does
\* not fit becomes a patch.
encode(dt, rows, bit_width) ==
    LET n == Len(rows)
        nchunks == (n + ChunkLen - 1) \div ChunkLen
        fits(i) == ~rows[i].valid \/ to_unsigned(dt.ptype, rows[i].v) < 2 ^ bit_width
        exceptions == SortedSeq({i - 1 : i \in {k \in 1..n : ~fits(k)}})
    IN  BitPackedArray(dt, bit_width, 0, n,
            [c \in 1..nchunks |->
                [k \in 1..ChunkLen |->
                    LET i == (c - 1) * ChunkLen + k
                    IN  IF i <= n THEN to_unsigned(dt.ptype, rows[i].v) % (2 ^ bit_width)
                        ELSE 0]],
            [i \in 1..n |-> rows[i].valid],
            IF exceptions = <<>> THEN NoPatches
            ELSE Patches(n, exceptions,
                         PrimitiveArray(dt, [j \in 1..Len(exceptions) |->
                                                rows[exceptions[j] + 1]])))

\* Patches::slice(lo, hi): the patches of the window, indices rebased.
patches_slice(patches, lo, hi) ==
    LET keep == SelectSeq([j \in 1..num_patches(patches) |-> j],
                          LAMBDA j : lo <= patches.indices[j] /\ patches.indices[j] < hi)
    IN  IF keep = <<>> THEN NoPatches
        ELSE Patches(hi - lo, [j \in 1..Len(keep) |-> patches.indices[keep[j]] - lo],
                     [patches.values EXCEPT !.elems =
                        [j \in 1..Len(keep) |-> patches.values.elems[keep[j]]]])

\* slice(lo, hi) of a bit-packed array: the offset advances by lo mod the
\* chunk length, whole chunks before and after the window are dropped.
bitpacked_slice(a, lo, hi) ==
    LET first == (a.offset + lo) \div ChunkLen
        last == (a.offset + hi + ChunkLen - 1) \div ChunkLen
    IN  BitPackedArray(a.dtype, a.bit_width, (a.offset + lo) % ChunkLen, hi - lo,
                       SubSeq(a.packed, first + 1, last),
                       SubSeq(a.validity, lo + 1, hi),
                       patches_slice(a.patches, lo, hi))

\* BitPacking::unchecked_unpack and unchecked_unpack_single on one chunk.
unchecked_unpack(bit_width, packed) == [k \in 1..ChunkLen |-> packed[k] % (2 ^ bit_width)]
unchecked_unpack_single(bit_width, packed, idx) == packed[idx + 1] % (2 ^ bit_width)

\* FilterMask: one bit per row.
true_count(mask) == Cardinality({i \in 1..Len(mask) : mask[i]})
MaskIndices(mask) == SortedSeq({i - 1 : i \in {k \in 1..Len(mask) : mask[k]}})
MaskSlices(mask) ==
    LET starts == {i \in 1..Len(mask) : mask[i] /\ (i = 1 \/ ~mask[i - 1])}
        stop(b) == CHOOSE e \in b..Len(mask) :
                        /\ \A k \in b..e : mask[k]
                        /\ e = Len(mask) \/ ~mask[e + 1]
        sorted == SortedSeq(starts)
    IN  [k \in 1..Len(sorted) |-> <<sorted[k] - 1, stop(sorted[k])>>]

\* flat_map(|(start, end)| start..end).
RECURSIVE FlatMap(_)
FlatMap(slices) ==
    IF slices = <<>> THEN <<>>
    ELSE [k \in 1..(Head(slices)[2] - Head(slices)[1]) |-> Head(slices)[1] + k - 1]
            \o FlatMap(Tail(slices))

\* The rows of a canonical array a mask selects, and the canonical filter.
Selected_rows(elems, mask) == [k \in 1..true_count(mask) |-> elems[MaskIndices(mask)[k] + 1]]
filter(a, mask) == [a EXCEPT !.elems = Selected_rows(a.elems, mask)]

\* Validity::filter and Patches::filter: the surviving patches, their
\* indices those of the filtered rows; None when no patch survives.
validity_filter(validity, mask) == Selected_rows(validity, mask)
patches_filter(patches, mask) ==
    LET keep == SelectSeq([j \in 1..num_patches(patches) |-> j],
                          LAMBDA j : mask[patches.indices[j] + 1])
        rank(i) == Cardinality({k \in 1..i : mask[k]})
    IN  IF keep = <<>> THEN NoPatches
        ELSE Patches(true_count(mask),
                     [j \in 1..Len(keep) |-> rank(patches.indices[keep[j]])],
                     [patches.values EXCEPT !.elems =
                        [j \in 1..Len(keep) |-> patches.values.elems[keep[j]]]])

\* chunked_indices: the indices grouped by the chunk (idx + offset) / chunk
\* length they fall in, each as its position within the chunk.
RECURSIVE chunked_indices(_, _)
chunked_indices(indices, offset) ==
    IF indices = <<>> THEN <<>>
    ELSE LET chunk_idx == (Head(indices) + offset) \div ChunkLen
             same == {k \in 1..Len(indices) :
                        \A j \in 1..k : (indices[j] + offset) \div ChunkLen = chunk_idx}
             n == Cardinality(same)
         IN  <<[chunk_idx |-> chunk_idx,
                indices_within_chunk |->
                    [k \in 1..n |-> (indices[k] + offset) % ChunkLen]]>>
                \o chunked_indices(SubSeq(indices, n + 1, Len(indices)), offset)

\* The closure of filter_indices on one chunk.
UnpackChunk(a, g) ==
    LET packed == a.packed[g.chunk_idx + 1]
        n == Len(g.indices_within_chunk)
    IN  IF n = ChunkLen
        THEN unchecked_unpack(a.bit_width, packed)
        ELSE IF n > UNPACK_CHUNK_THRESHOLD
        THEN LET unpacked == unchecked_unpack(a.bit_width, packed)
             IN  [k \in 1..n |-> unpacked[g.indices_within_chunk[k] + 1]]
        ELSE [k \in 1..n |->
                unchecked_unpack_single(a.bit_width, packed, g.indices_within_chunk[k])]

filter_indices(a, indices_len, indices) ==
    LET groups == chunked_indices(indices, a.offset)
    IN  Concat([k \in 1..Len(groups) |-> UnpackChunk(a, groups[k])])

filter_slices(a, indices_len, slices) == filter_indices(a, indices_len, FlatMap(slices))

\* IntoCanonical for BitPackedArray: every chunk unpacked, the window of
\* the array cut out, the patches applied.
bitpacked_into_primitive(a) ==
    LET all == Concat([c \in 1..Len(a.packed) |-> unchecked_unpack(a.bit_width, a.packed[c])])
        plain == PrimitiveArray(a.dtype,
                    [i \in 1..a.len |->
                        Row(a.validity[i], reinterpret_cast(a.dtype.ptype, all[a.offset + i]))])
    IN  IF num_patches(a.patches) = 0 THEN Ok(plain) ELSE patch(plain, a.patches)

\* filter_primitive with the patches left out.
filter_primitive_unpatched(a, mask, iter) ==
    LET validity == validity_filter(a.validity, mask)
    IN  IF 5 * true_count(mask) > 4 * Len(mask)
        THEN Ok(filter(bitpacked_into_primitive(a).array, mask))
        ELSE LET values == filter_indices(a, true_count(mask), MaskIndices(mask))
             IN  Ok(PrimitiveArray(a.dtype,
                        [k \in 1..Len(values) |->
                            Row(validity[k], reinterpret_cast(a.dtype.ptype, values[k]))]))

filter_primitive(a, mask, iter) ==
    LET validity == validity_filter(a.validity, mask)
        patches == patches_filter(a.patches, mask)
    IN  IF 5 * true_count(mask) > 4 * Len(mask)
        THEN LET primitive == bitpacked_into_primitive(a)
             IN  IF primitive.ok THEN Ok(filter(primitive.array, mask)) ELSE primitive
        ELSE LET values == IF iter = "Indices"
                           THEN filter_indices(a, true_count(mask), MaskIndices(mask))
                           ELSE filter_slices(a, true_count(mask), MaskSlices(mask))
                 cast == PrimitiveArray(a.dtype,
                            [k \in 1..Len(values) |->
                                Row(validity[k], reinterpret_cast(a.dtype.ptype, values[k]))])
             IN  IF num_patches(patches) > 0 THEN patch(cast, patches) ELSE Ok(cast)

\* FilterFn<BitPackedArray>::filter.
bitpacked_filter(a, mask, iter) == filter_primitive(a, mask, iter)

\* The arrays filtered: the rows -1, 0, 1, .. (I8) or 0, 1, 2, .. (U8) over
\* two chunks, in a nullable array every third row null, packed at a width
\* that leaves patches (1 bit) or none (3 bits, unsigned), then sliced.
PackedRows(dt) ==
    [i \in 1..(2 * ChunkLen) |->
        Elem(~dt.nullable \/ i % 3 # 0, IF dt.ptype = "I8" THEN i - 2 ELSE i - 1)]

BitPackedDTypes == {Primitive(p, n) : p \in {"U8", "I8"}, n \in BOOLEAN}

BitPackedArrays ==
    UNION {{bitpacked_slice(encode(dt, PackedRows(dt), w), lo, hi) : hi \in lo..(2 * ChunkLen)} :
            dt \in BitPackedDTypes, w \in {1, 3}, lo \in 0..(2 * ChunkLen)}

InitBitPacked ==
    /\ \E a \in BitPackedArrays :
          /\ array = Ok(a)
          /\ dtype = a.dtype
          /\ \E mask \in [1..a.len -> BOOLEAN], iter \in {"Indices", "Slices"} :
                args = [mask |-> mask, iter |-> iter]
    /\ chunks = <<>>
    /\ out = NoArray
    /\ pc = "init"
    /\ NumericIdle
    /\ StreamIdle

Filter ==
    /\ pc = "init"
    /\ out' = bitpacked_filter(array.array, args.mask, args.iter)
    /\ pc' = "filter"
    /\ UNCHANGED <<lhs, rhs, op, chunks, dtype, array, args, StreamVars>>

NextBitPacked == Filter

SpecBitPacked == InitBitPacked /\ [][NextBitPacked]_vars

\* The rows as values: the buffer under a null row does not count.
Logical(elems) == [i \in 1..Len(elems) |-> Elem(elems[i].valid, elems[i].v)]

\* C20: filter of a bit-packed array (signed or not, patched or not, sliced
\* at an offset or not) under a mask of its length returns true_count rows
\* equal, in row order, to the filter of the canonical array: the same
\* values and validity whether the selectivity is above 0.8 or not and
\* whichever way each chunk is unpacked, patched rows holding the patch.
C20_FilterMatchesCanonical ==
    pc = "filter" =>
        LET a == array.array
            canonical == bitpacked_into_primitive(a).array
        IN  /\ out.ok
            /\ out.array.dtype = a.dtype
            /\ Len(out.array.elems) = true_count(args.mask)
            /\ Logical(out.array.elems) = Logical(filter(canonical, args.mask).elems)
            /\ \A k \in 1..true_count(args.mask) :
                  LET i == MaskIndices(args.mask)[k]
                  IN  (\E j \in 1..num_patches(a.patches) : a.patches.indices[j] = i)
                        => out.array.elems[k] =
                              a.patches.values.elems[CHOOSE j \in 1..num_patches(a.patches) :
                                                        a.patches.indices[j] = i]

\* A signed array sliced at offset 1: the three rows of its second chunk,
\* all patched, were selected out of five.
C20_Witness ==
    /\ pc = "filter"
    /\ array.array.dtype = Primitive("I8", FALSE)
    /\ array.array.offset = 1 /\ array.array.len = 2 * ChunkLen - 1
    /\ array.array.bit_width = 1
    /\ args.mask = [i \in 1..(2 * ChunkLen - 1) |-> i >= ChunkLen]
    /\ out.ok
    /\ out.array.elems = [k \in 1..ChunkLen |-> Row(TRUE, ChunkLen + k - 2)]

----------------------------------------------------------------------------
(* scalar_at of a BitPackedArray                                           *)
(* (encodings/fastlanes/src/bitpacking/compute/scalar_at.rs).              *)

\* A Scalar: a value, or null, tagged with its dtype.
Scalar(dt, row) == [dtype |-> dt, valid |-> row.valid, v |-> IF row.valid THEN row.v ELSE 0]
ScalarNull(dt) == [dtype |-> dt, valid |-> FALSE, v |-> 0]

\* Scalar::cast to a primitive dtype: the value must be one of the ptype,
\* a null needs a nullable dtype.
scalar_cast(scalar, dt) ==
    IF ~scalar.valid
    THEN IF dt.nullable THEN Ok(ScalarNull(dt)) ELSE Err("cast")
    ELSE IF scalar.v < PTypeMin(dt.ptype) \/ scalar.v > PTypeMax(dt.ptype)
    THEN Err("cast")
    ELSE Ok([scalar EXCEPT !.dtype = dt])

\* Patches::get_patched: the patch value recorded at the index, if any.
NoScalar == [some |-> FALSE, scalar |-> <<>>]
get_patched(patches, index) ==
    IF \E j \in 1..num_patches(patches) : patches.indices[j] = index
    THEN LET j == CHOOSE k \in 1..num_patches(patches) : patches.indices[k] = index
         IN  [some |-> TRUE, scalar |-> Scalar(patches.values.dtype, patches.values.elems[j])]
    ELSE NoScalar

\* unpack_single: the row unpacked from the chunk (index + offset) / chunk
\* length, as a scalar of the unsigned ptype.
unpack_single(a, index) ==
    LET index_in_encoded == index + a.offset
        packed == a.packed[(index_in_encoded \div ChunkLen) + 1]
    IN  Ok(Scalar(Primitive(IF a.dtype.ptype = "I8" THEN "U8" ELSE a.dtype.ptype, FALSE),
                  Row(TRUE, unchecked_unpack_single(a.bit_width, packed,
                                                    index_in_encoded % ChunkLen))))

\* The kernel without the look into the patches.
bitpacked_scalar_at_unpatched(a, index) ==
    LET unpacked == unpack_single(a, index)
    IN  IF unpacked.ok THEN scalar_cast(unpacked.array, a.dtype) ELSE unpacked

\* ScalarAtFn<BitPackedArray>::scalar_at.
bitpacked_scalar_at(a, index) ==
    IF num_patches(a.patches) > 0 /\ get_patched(a.patches, index).some
    THEN Ok(get_patched(a.patches, index).scalar)
    ELSE LET unpacked == unpack_single(a, index)
         IN  IF unpacked.ok THEN scalar_cast(unpacked.array, a.dtype) ELSE unpacked

\* compute::scalar_at: an index out of bounds is an error, an invalid
\* position a typed null, and every other position is left to the kernel.
compute_scalar_at(a, index) ==
    IF index >= a.len THEN Err("OutOfBounds")
    ELSE IF ~a.validity[index + 1] THEN Ok(ScalarNull(a.dtype))
    ELSE bitpacked_scalar_at(a, index)

\* BitPackedArray::new_unchecked with Validity::AllInvalid: the patches stay
\* recorded at positions that are not valid.
AllInvalid(a) == [a EXCEPT !.validity = [i \in 1..a.len |-> FALSE]]

ScalarAtArrays ==
    BitPackedArrays \cup {AllInvalid(a) : a \in {b \in BitPackedArrays : b.dtype.nullable}}

InitScalarAt ==
    /\ \E a \in ScalarAtArrays :
          /\ array = Ok(a)
          /\ dtype = a.dtype
          /\ \E index \in 0..a.len : args = [index |-> index]
    /\ chunks = <<>>
    /\ out = NoArray
    /\ pc = "init"
    /\ NumericIdle
    /\ StreamIdle

ScalarAtBitPacked ==
    /\ pc = "init"
    /\ out' = compute_scalar_at(array.array, args.index)
    /\ pc' = "scalar_at"
    /\ UNCHANGED <<lhs, rhs, op, chunks, dtype, array, args, StreamVars>>

NextScalarAt == ScalarAtBitPacked

SpecScalarAt == InitScalarAt /\ [][NextScalarAt]_vars

\* The value row i of the array was packed from, by position in the table.
Patched(a, i) == \E j \in 1..num_patches(a.patches) : a.patches.indices[j] = i
PatchAt(a, i) == a.patches.values.elems[CHOOSE j \in 1..num_patches(a.patches) :
                                            a.patches.indices[j] = i]
UnpackedAt(a, i) ==
    a.packed[((i + a.offset) \div ChunkLen) + 1][((i + a.offset) % ChunkLen) + 1]

----------------------------------------------------------------------------
(* RoaringBoolArray (encodings/roaring/src/boolean/mod.rs).                *)

\* A Bitmap is the set of its set bits.  Bits per byte and bytes per word
\* of a Bitset (8 and 8 in the source), and the sizes tried.
ByteBits == 2
WordBytes == 2
MaxBit == 5
MaxRoaringLen == 7

Max(S) == CHOOSE m \in S : \A x \in S : x <= m

\* Bitmap::maximum().unwrap_or(0).
maximum_or_0(bitmap) == IF bitmap = {} THEN 0 ELSE Max(bitmap)

RoaringBoolArray(bitmap, length) ==
    [encoding |-> "roaring_bool", dtype |-> Bool(FALSE), len |-> length,
     bitmap |-> bitmap, true_count |-> Cardinality(bitmap)]

RoaringBoolArray_try_new(bitmap, length) ==
    LET max_set == maximum_or_0(bitmap)
    IN  IF length < max_set
        THEN Err("RoaringBoolArray length is less than bitmap maximum")
        ELSE Ok(RoaringBoolArray(bitmap, length))

\* Bitmap::to_bitset, as bits: whole words up to the largest set bit, bit i
\* of the slice set when i is in the bitmap.
to_bitset(bitmap) ==
    LET bits == IF bitmap = {} THEN 0 ELSE Max(bitmap) + 1
        word == ByteBits * WordBytes
        words == (bits + word - 1) \div word
    IN  [i \in 1..(words * word) |-> (i - 1) \in bitmap]

size_in_bytes(bitset) == Len(bitset) \div ByteBits

\* BooleanBuffer::new(buffer, 0, len): the first len bits of the buffer,
\* which must hold that many.
BooleanBuffer_new(buffer, len) ==
    IF len > Len(buffer) THEN Err("panic")
    ELSE Ok(BoolArray(Bool(FALSE),
                      [i \in 1..len |-> Elem(TRUE, IF buffer[i] THEN 1 ELSE 0)]))

\* into_canonical without the zero fill.
roaring_into_canonical_unfilled(a) == BooleanBuffer_new(to_bitset(a.bitmap), a.len)

\* IntoCanonical for RoaringBoolArray.
roaring_into_canonical(a) ==
    LET bitset == to_bitset(a.bitmap)
        byte_length == (a.len + ByteBits - 1) \div ByteBits
        buffer == IF byte_length > size_in_bytes(bitset)
                  THEN bitset \o [i \in 1..((byte_length - size_in_bytes(bitset)) * ByteBits)
                                    |-> FALSE]
                  ELSE bitset
    IN  BooleanBuffer_new(buffer, a.len)

InitRoaring ==
    /\ \E bitmap \in SUBSET (0..MaxBit), length \in 0..MaxRoaringLen :
          args = [bitmap |-> bitmap, length |-> length]
    /\ array = NoArray
    /\ dtype = Bool(FALSE)
    /\ chunks = <<>>
    /\ out = NoArray
    /\ pc = "init"
    /\ NumericIdle
    /\ StreamIdle

TryNewRoaring ==
    /\ pc = "init"
    /\ array' = RoaringBoolArray_try_new(args.bitmap, args.length)
    /\ pc' = IF array'.ok THEN "built" ELSE "failed"
    /\ UNCHANGED <<lhs, rhs, op, chunks, dtype, args, out, StreamVars>>

IntoCanonicalRoaring ==
    /\ pc = "built"
    /\ out' = roaring_into_canonical(array.array)
    /\ pc' = "into_canonical"
    /\ UNCHANGED <<lhs, rhs, op, chunks, dtype, array, args, StreamVars>>

NextRoaring == TryNewRoaring \/ IntoCanonicalRoaring

SpecRoaring == InitRoaring /\ [][NextRoaring]_vars

\* C22: try_new(bitmap, length) is an error whenever a bit is set at a
\* position >= length, the position length itself included; an array it
\* builds has every set bit in [0, length) and a true count <= length.
C22_BitsInsideLength ==
    pc \in {"built", "failed", "into_canonical"} =>
        /\ (\E b \in args.bitmap : b >= args.length) => ~array.ok
        /\ array.ok => /\ \A b \in array.array.bitmap : b < array.array.len
                       /\ array.array.true_count <= array.array.len

\* C23: the canonical form of a RoaringBool array of length n is a
\* non-nullable Bool array of n elements, element i true exactly when i is
\* in the bitmap, whatever the size of the bitset against ceil(n/8) bytes.
C23_CanonicalIsTheBitmap ==
    pc = "into_canonical" =>
        /\ out.ok
        /\ out.array.encoding = "bool"
        /\ out.array.dtype = Bool(FALSE)
        /\ Len(out.array.elems) = array.array.len
        /\ \A i \in 0..(array.array.len - 1) :
              out.array.elems[i + 1] =
                  Elem(TRUE, IF i \in array.array.bitmap THEN 1 ELSE 0)

\* Rows past the last word of the bitset were filled with false.
C23_Witness ==
    /\ pc = "into_canonical"
    /\ array.array.bitmap = {0, 1}
    /\ array.array.len = MaxRoaringLen
    /\ size_in_bytes(to_bitset(array.array.bitmap)) * ByteBits < array.array.len
    /\ out.ok
    /\ out.array.elems = [i \in 1..MaxRoaringLen |-> Elem(TRUE, IF i <= 2 THEN 1 ELSE 0)]

----------------------------------------------------------------------------
(* ALPRDArray (encodings/alp/src/alp_rd/array.rs).                         *)

\* Entries of the dictionary in the metadata ([u16; 8]), and the rows tried.
DictCap == 8
MaxAlpLen == 1

is_float(dt) == dt.kind = "Primitive" /\ dt.ptype \in {"F16", "F32", "F64"}
is_unsigned_int(dt) == dt.kind = "Primitive" /\ dt.ptype \in {"U8", "U16", "U32", "U64"}

Panic == Err("panic")

ALPRDArray(dt, len, left_parts, dict, dict_len, right_parts, right_bit_width, patches) ==
    [encoding |-> "alprd", dtype |-> dt, len |-> len, left_parts |-> left_parts,
     dict |-> dict, dict_len |-> dict_len, left_parts_ptype |-> left_parts.dtype.ptype,
     right_parts |-> right_parts, right_bit_width |-> right_bit_width,
     patches |-> patches]

\* ALPRDArray::try_new; writing entry idx >= 8 of the dictionary is an index
\* out of bounds.
ALPRDArray_try_new(dt, left_parts, left_parts_dict, right_parts, right_bit_width, left_parts_patches) ==
    LET len == Len(left_parts.elems)
    IN  IF ~is_float(dt) THEN Err("invalid DType")
        ELSE IF Len(right_parts.elems) # len THEN Err("same length")
        ELSE IF ~is_unsigned_int(left_parts.dtype) THEN Err("left_parts dtype must be uint")
        ELSE IF is_nullable(dt) # is_nullable(left_parts.dtype) THEN Err("nullability")
        ELSE IF is_nullable(right_parts.dtype) THEN Err("right_parts dtype must be non-nullable")
        ELSE IF ~is_unsigned_int(right_parts.dtype) \/ is_nullable(right_parts.dtype)
        THEN Err("MismatchedTypes")
        ELSE IF num_patches(left_parts_patches) > 0
                /\ is_nullable(left_parts_patches.values.dtype)
        THEN Err("patches must be non-nullable")
        ELSE IF Len(left_parts_dict) > DictCap THEN Panic
        ELSE Ok(ALPRDArray(dt, len, left_parts,
                    [idx \in 1..DictCap |->
                        IF idx <= Len(left_parts_dict) THEN left_parts_dict[idx] ELSE 0],
                    Len(left_parts_dict) % 256, right_parts, right_bit_width,
                    left_parts_patches))

is_f32(a) == a.dtype.ptype = "F32"

\* alp_rd_decode: the left part of row i is its patch, else the dictionary
\* entry of its code; the bits are the left part shifted over the right part.
alp_rd_decode(left_parts, left_parts_dict, right_bit_width, right_parts, patches) ==
    IF \E i \in 1..Len(left_parts) : left_parts[i].v >= Len(left_parts_dict)
    THEN Panic
    ELSE Ok([i \in 1..Len(left_parts) |->
                LET left == IF get_patched(patches, i - 1).some
                            THEN get_patched(patches, i - 1).scalar.v
                            ELSE left_parts_dict[left_parts[i].v + 1]
                IN  left * (2 ^ right_bit_width) + right_parts[i].v])

\* IntoCanonical for ALPRDArray; maybe_null_slice::<T> of an array of
\* another ptype panics.
alprd_into_canonical(a) ==
    LET left_parts_dict == SubSeq(a.dict, 1, a.dict_len)
        right_ptype == IF is_f32(a) THEN "U32" ELSE "U64"
    IN  IF a.left_parts.dtype.ptype # "U16" \/ a.right_parts.dtype.ptype # right_ptype
        THEN Panic
        ELSE LET decoded == alp_rd_decode(a.left_parts.elems, left_parts_dict,
                                          a.right_bit_width, a.right_parts.elems, a.patches)
             IN  IF ~decoded.ok THEN decoded
                 ELSE Ok(PrimitiveArray(a.dtype,
                            [i \in 1..a.len |->
                                Row(a.left_parts.elems[i].valid, decoded.array[i])]))

AlpDTypes == {Primitive(p, n) : p \in {"F32", "F64", "U32"}, n \in BOOLEAN}

LeftParts ==
    UNION {{PrimitiveArray(Primitive(p, n), rows) :
                rows \in [1..len -> {Row(TRUE, 0)} \cup (IF n THEN {Row(FALSE, 0)} ELSE {})]} :
            p \in {"U16", "U32", "I16"}, n \in BOOLEAN, len \in 0..MaxAlpLen}

RightParts ==
    {PrimitiveArray(Primitive(p, n), [i \in 1..len |-> Row(TRUE, 1)]) :
        p \in {"U32", "U64", "I32"}, n \in BOOLEAN, len \in 0..MaxAlpLen}

LeftDicts == {[idx \in 1..n |-> idx] : n \in {1, DictCap, DictCap + 1}}

LeftPatches ==
    {NoPatches} \cup
    {Patches(1, <<0>>, PrimitiveArray(Primitive("U16", n), <<Row(TRUE, 3)>>)) : n \in BOOLEAN}

InitAlprd ==
    /\ \E dt \in AlpDTypes, left \in LeftParts, dict \in LeftDicts, right \in RightParts,
          patches \in LeftPatches :
          /\ patches.array_len <= Len(left.elems)
          /\ dtype = dt
          /\ args = [left_parts |-> left, left_parts_dict |-> dict, right_parts |-> right,
                     right_bit_width |-> 2, left_parts_patches |-> patches]
    /\ array = NoArray
    /\ chunks = <<>>
    /\ out = NoArray
    /\ pc = "init"
    /\ NumericIdle
    /\ StreamIdle

TryNewAlprd ==
    /\ pc = "init"
    /\ array' = ALPRDArray_try_new(dtype, args.left_parts, args.left_parts_dict,
                                   args.right_parts, args.right_bit_width,
                                   args.left_parts_patches)
    /\ pc' = IF array'.ok THEN "built" ELSE "failed"
    /\ UNCHANGED <<lhs, rhs, op, chunks, dtype, args, out, StreamVars>>

IntoCanonicalAlprd ==
    /\ pc = "built"
    /\ out' = alprd_into_canonical(array.array)
    /\ pc' = "into_canonical"
    /\ UNCHANGED <<lhs, rhs, op, chunks, dtype, array, args, StreamVars>>

NextAlprd == TryNewAlprd \/ IntoCanonicalAlprd

SpecAlprd == InitAlprd /\ [][NextAlprd]_vars

\* C24: try_new never panics and builds no ill-formed array: it is an error
\* for a dtype that is no float, for parts of different lengths, for
\* left_parts not unsigned or of another nullability than the dtype, for
\* right_parts nullable or not unsigned, for nullable patch values and for
\* a dictionary of more than 8 entries; an array it builds canonicalizes
\* without panic to a float array of its length with left_parts' validity.
C24_TryNewRejectsIllFormed ==
    /\ pc \in {"built", "failed", "into_canonical"} =>
        /\ array # Panic
        /\ (\/ ~is_float(dtype)
            \/ Len(args.left_parts.elems) # Len(args.right_parts.elems)
            \/ ~is_unsigned_int(args.left_parts.dtype)
            \/ is_nullable(dtype) # is_nullable(args.left_parts.dtype)
            \/ is_nullable(args.right_parts.dtype)
            \/ ~is_unsigned_int(args.right_parts.dtype)
            \/ (num_patches(args.left_parts_patches) > 0
                    /\ is_nullable(args.left_parts_patches.values.dtype))
            \/ Len(args.left_parts_dict) > DictCap) => (~array.ok /\ array # Panic)
    /\ pc = "into_canonical" =>
        /\ out.ok
        /\ is_float(out.array.dtype)
        /\ Len(out.array.elems) = array.array.len
        /\ \A i \in 1..array.array.len :
              out.array.elems[i].valid = args.left_parts.elems[i].valid

----------------------------------------------------------------------------
(* ListArray (vortex-array/src/array/list/mod.rs).                         *)

MaxElements == 2
MaxOffsets == 3

is_int(dt) == dt.kind = "Primitive" /\ dt.ptype \in {"U8", "I8", "U16", "I32", "U32", "U64"}

ListArray(elements, offsets, validity, list_len) ==
    [encoding |-> "list", dtype |-> [kind |-> "List", element |-> elements.dtype,
                                     nullable |-> validity # "NonNullable"],
     len |-> list_len, elements |-> elements, offsets |-> offsets, validity |-> validity,
     elements_len |-> Len(elements.elems), offset_ptype |-> offsets.dtype.ptype]

\* ListArray::try_new.  offsets.len() - 1 on empty offsets overflows: a
\* panic where overflow is checked, else a wrap to a length far past any
\* array, with which the constructor goes on to its checks.
ListArray_try_new(elements, offsets, validity, overflow_checks) ==
    IF Len(offsets.elems) = 0 /\ overflow_checks THEN Panic
    ELSE LET list_len == IF Len(offsets.elems) = 0 THEN 2 ^ 30 ELSE Len(offsets.elems) - 1
         IN  IF ~is_int(offsets.dtype) \/ is_nullable(offsets.dtype)
             THEN Err("Expected offsets to be an non-nullable integer type")
             ELSE IF Len(offsets.elems) = 0
             THEN Err("Offsets must have at least one element")
             ELSE Ok(ListArray(elements, offsets, validity, list_len))

offset_at(a, index) == a.offsets.elems[index + 1].v

\* compute::slice with its bounds check.
checked_slice(a, start, stop) ==
    IF start > stop \/ stop > Len(a.elems) THEN Err("OutOfBounds")
    ELSE Ok(slice(a, start, stop))

NullArray(len) == [encoding |-> "null", len |-> len]

\* ListArray::elements_at.
elements_at(a, index) ==
    IF index >= a.len THEN Err("Index out of bounds")
    ELSE IF a.validity = "AllInvalid" THEN Ok(NullArray(1))
    ELSE checked_slice(a.elements, offset_at(a, index), offset_at(a, index + 1))

ListOffsets ==
    UNION {{PrimitiveArray(dt, [i \in 1..n |-> Row(TRUE, f[i])]) : f \in [1..n -> 0..MaxElements]} :
            dt \in {Primitive("I32", FALSE), Primitive("I32", TRUE), Bool(FALSE)},
            n \in 0..MaxOffsets}

ListElements ==
    {PrimitiveArray(Primitive("U8", FALSE), [i \in 1..n |-> Row(TRUE, 10 + i)]) : n \in 0..MaxElements}

InitList ==
    /\ \E elements \in ListElements, offsets \in ListOffsets,
          validity \in {"NonNullable", "AllValid", "AllInvalid"}, checks \in BOOLEAN :
          args = [elements |-> elements, offsets |-> offsets, validity |-> validity,
                  overflow_checks |-> checks]
    /\ array = NoArray
    /\ dtype = Primitive("U8", FALSE)
    /\ chunks = <<>>
    /\ out = NoArray
    /\ pc = "init"
    /\ NumericIdle
    /\ StreamIdle

TryNewList ==
    /\ pc = "init"
    /\ array' = ListArray_try_new(args.elements, args.offsets, args.validity,
                                  args.overflow_checks)
    /\ pc' = IF array'.ok THEN "built" ELSE "failed"
    /\ UNCHANGED <<lhs, rhs, op, chunks, dtype, args, out, StreamVars>>

ElementsAt ==
    /\ pc = "built"
    /\ \E index \in 0..array.array.len :
          out' = [index |-> index, result |-> elements_at(array.array, index)]
    /\ pc' = "elements_at"
    /\ UNCHANGED <<lhs, rhs, op, chunks, dtype, array, args, StreamVars>>

NextList == TryNewList \/ ElementsAt

SpecList == InitList /\ [][NextList]_vars

Monotone(offsets) ==
    \A i \in 1..(Len(offsets) - 1) : offsets[i].v <= offsets[i + 1].v

\* C25: ListArray::try_new returns an error or a well-formed list and never
\* panics: an error for empty offsets, for nullable or non-integer offsets,
\* for offsets not monotonically non-decreasing and for a final offset past
\* the elements; a list it returns has length offsets.len - 1 and
\* elements_at(i), i valid and < len, is elements[offsets[i], offsets[i+1]).
C25_TryNewListWellFormed ==
    /\ pc \in {"built", "failed", "elements_at"} =>
        /\ array # Panic
        /\ (\/ Len(args.offsets.elems) = 0
            \/ is_nullable(args.offsets.dtype)
            \/ ~is_int(args.offsets.dtype)
            \/ ~Monotone(args.offsets.elems)
            \/ (Len(args.offsets.elems) > 0
                    /\ args.offsets.elems[Len(args.offsets.elems)].v > Len(args.elements.elems)))
                => ~array.ok
        /\ array.ok => array.array.len = Len(args.offsets.elems) - 1
    /\ (pc = "elements_at" /\ out.index < array.array.len
            /\ array.array.validity # "AllInvalid") =>
        /\ out.result.ok
        /\ out.result.array.elems =
              SubSeq(args.elements.elems, args.offsets.elems[out.index + 1].v + 1,
                     args.offsets.elems[out.index + 2].v)

----------------------------------------------------------------------------
(* take of a PrimitiveArray                                                *)
(* (vortex-array/src/array/primitive/compute/take.rs).                     *)

MaxTakeLen == 2
MaxIndices == 2

\* idx.as_() to usize: a negative index wraps far past any array.
as_usize(idx) == IF idx < 0 THEN idx + 2 ^ 30 ELSE idx

\* take_primitive: array[idx.as_()] for every index, an index out of
\* bounds being a panic.
take_primitive(values, indices) ==
    IF \E k \in 1..Len(indices) : as_usize(indices[k]) >= Len(values)
    THEN Panic
    ELSE Ok([k \in 1..Len(indices) |-> values[as_usize(indices[k]) + 1]])

\* Validity::take: NonNullable stays; a validity array is taken in turn,
\* which is an error for an index out of bounds.
validity_take(a, indices) ==
    IF ~a.dtype.nullable THEN Ok([k \in 1..Len(indices) |-> TRUE])
    ELSE IF \E k \in 1..Len(indices) : as_usize(indices[k]) >= Len(a.elems)
    THEN Err("OutOfBounds")
    ELSE Ok([k \in 1..Len(indices) |-> a.elems[as_usize(indices[k]) + 1].valid])

\* TakeFn<PrimitiveArray>::take.
primitive_take(a, indices) ==
    LET validity == validity_take(a, indices)
    IN  IF ~validity.ok THEN validity
        ELSE LET values == take_primitive([i \in 1..Len(a.elems) |-> a.elems[i].v], indices)
             IN  IF ~values.ok THEN values
                 ELSE Ok(PrimitiveArray(a.dtype,
                            [k \in 1..Len(indices) |->
                                Row(validity.array[k], values.array[k])]))

TakeArrays ==
    UNION {{PrimitiveArray(Primitive("U8", n), rows) : rows \in Rows(Primitive("U8", n), len)} :
            n \in BOOLEAN, len \in 0..MaxTakeLen}

TakeIndices == UNION {[1..n -> (-1)..MaxTakeLen] : n \in 0..MaxIndices}

InitTake ==
    /\ \E a \in TakeArrays, indices \in TakeIndices :
          /\ array = Ok(a)
          /\ dtype = a.dtype
          /\ args = [indices |-> indices]
    /\ chunks = <<>>
    /\ out = NoArray
    /\ pc = "init"
    /\ NumericIdle
    /\ StreamIdle

Take ==
    /\ pc = "init"
    /\ out' = primitive_take(array.array, args.indices)
    /\ pc' = "take"
    /\ UNCHANGED <<lhs, rhs, op, chunks, dtype, array, args, StreamVars>>

NextTake == Take

SpecTake == InitTake /\ [][NextTake]_vars

InBounds(a, indices) ==
    \A k \in 1..Len(indices) : 0 <= indices[k] /\ indices[k] < Len(a.elems)

\* C26: the checked take of a primitive array with indices all in
\* [0, a.len) is an array of idx.len elements, element k equal to a[idx[k]]
\* with the validity of that position; with an index >= a.len or negative
\* it returns an error, never panicking or reading out of bounds.
C26_TakeChecked ==
    pc = "take" =>
        IF InBounds(array.array, args.indices)
        THEN /\ out.ok
             /\ Len(out.array.elems) = Len(args.indices)
             /\ \A k \in 1..Len(args.indices) :
                   out.array.elems[k] = array.array.elems[args.indices[k] + 1]
        ELSE ~out.ok /\ out # Panic

----------------------------------------------------------------------------
(* cast of a PrimitiveArray                                                *)
(* (vortex-array2/src/array/primitive/compute/cast.rs).                    *)

MaxCastLen == 2

\* T::from(v) of num_traits: the value when the target ptype holds it.
NumCast(ptype, v) ==
    IF ptype = "F32" \/ (PTypeMin(ptype) <= v /\ v <= PTypeMax(ptype))
    THEN [some |-> TRUE, v |-> v]
    ELSE [some |-> FALSE, v |-> 0]

\* cast::<T>: every element of the buffer is converted, those under a null
\* too; the first that does not convert is the error.
cast_values(ptype, a) ==
    IF \E i \in 1..Len(a.elems) : ~NumCast(ptype, a.elems[i].v).some
    THEN Err("ComputeError")
    ELSE Ok([i \in 1..Len(a.elems) |-> NumCast(ptype, a.elems[i].v).v])

\* CastFn for PrimitiveArray: the array itself for its own ptype, else the
\* converted values under the validity of the source.
primitive_cast(a, dt) ==
    IF dt.kind # "Primitive" THEN Err("InvalidDType")
    ELSE IF dt.ptype = a.dtype.ptype THEN Ok(a)
    ELSE LET values == cast_values(dt.ptype, a)
         IN  IF ~values.ok THEN values
             ELSE Ok(PrimitiveArray(Primitive(dt.ptype, a.dtype.nullable),
                        [i \in 1..Len(a.elems) |-> Row(a.elems[i].valid, values.array[i])]))

CastValues(ptype) ==
    CASE ptype = "U8" -> {1, 200} [] ptype = "I8" -> {-1, 1} [] OTHER -> {1, 300}

CastArrays ==
    UNION {{PrimitiveArray(Primitive(p, n), rows) :
                rows \in [1..len -> {Row(valid, v) : valid \in (IF n THEN BOOLEAN ELSE {TRUE}),
                                                    v \in CastValues(p)}]} :
            p \in {"U8", "I8", "U16"}, n \in BOOLEAN, len \in 0..MaxCastLen}

CastDTypes == {Primitive(p, n) : p \in {"U8", "I8", "U16", "F32"}, n \in BOOLEAN} \cup {Bool(FALSE)}

InitCast ==
    /\ \E a \in CastArrays, dt \in CastDTypes :
          /\ array = Ok(a)
          /\ dtype = dt
    /\ args = <<>>
    /\ chunks = <<>>
    /\ out = NoArray
    /\ pc = "init"
    /\ NumericIdle
    /\ StreamIdle

Cast ==
    /\ pc = "init"
    /\ out' = primitive_cast(array.array, dtype)
    /\ pc' = "cast"
    /\ UNCHANGED <<lhs, rhs, op, chunks, dtype, array, args, StreamVars>>

NextCast == Cast

SpecCast == InitCast /\ [][NextCast]_vars

Representable(a, ptype) ==
    \A i \in 1..Len(a.elems) : a.elems[i].valid => NumCast(ptype, a.elems[i].v).some

HasNulls(a) == \E i \in 1..Len(a.elems) : ~a.elems[i].valid

\* C27: cast(a, dtype) of a primitive array is an array of exactly the
\* requested dtype, ptype and nullability, of the same length and validity,
\* every value numerically equal to its source; it fails with ComputeError
\* exactly when a value is not representable in the target ptype, and a
\* cast to the array's own ptype leaves the values unchanged.
C27_CastToRequestedDType ==
    (pc = "cast" /\ dtype.kind = "Primitive" /\ (HasNulls(array.array) => dtype.nullable)) =>
        LET a == array.array
        IN  IF Representable(a, dtype.ptype)
            THEN /\ out.ok
                 /\ out.array.dtype = dtype
                 /\ Len(out.array.elems) = Len(a.elems)
                 /\ \A i \in 1..Len(a.elems) :
                       /\ out.array.elems[i].valid = a.elems[i].valid
                       /\ a.elems[i].valid => out.array.elems[i].v = a.elems[i].v
            ELSE ~out.ok /\ out.err = "ComputeError"

----------------------------------------------------------------------------
(* ArrayChildrenIterator (vortex-array/src/lib.rs).                        *)

\* A tree of arrays is its parent function: node 1 is the root, parent[n]
\* is the parent of node n > 1, and the children of a node are in the
\* order of their numbers.
MaxNodes == 5

ArrayTrees ==
    UNION {{[nodes |-> n, parent |-> p] :
                p \in {q \in [1..n -> 0..n] : q[1] = 0 /\ \A i \in 2..n : 1 <= q[i] /\ q[i] < i}} :
            n \in 1..MaxNodes}

\* ArrayData::children.
children(tree, node) == SortedSeq({c \in 1..tree.nodes : tree.parent[c] = node})

Reverse(s) == [i \in 1..Len(s) |-> s[Len(s) + 1 - i]]

\* The children pushed in their own order.
push_children_forward(stack, kids) == stack \o kids

\* for child in next.children().into_iter().rev() { stack.push(child) }.
push_children(stack, kids) == stack \o Reverse(kids)

InitIter ==
    /\ \E tree \in ArrayTrees : array = Ok(tree)
    /\ args = [stack |-> <<1>>]
    /\ out = <<>>
    /\ pc = "iterating"
    /\ dtype = Primitive("U8", FALSE)
    /\ chunks = <<>>
    /\ NumericIdle
    /\ StreamIdle

\* Iterator::next: None on an empty stack, else the node popped, its
\* children pushed in reverse.
IterNext ==
    /\ pc = "iterating"
    /\ IF args.stack = <<>>
       THEN /\ pc' = "done"
            /\ UNCHANGED <<args, out>>
       ELSE LET next == args.stack[Len(args.stack)]
                rest == SubSeq(args.stack, 1, Len(args.stack) - 1)
            IN  /\ args' = [stack |-> push_children(rest, children(array.array, next))]
                /\ out' = Append(out, next)
                /\ pc' = "iterating"
    /\ UNCHANGED <<lhs, rhs, op, chunks, dtype, array, StreamVars>>

NextIter == IterNext

SpecIter == InitIter /\ [][NextIter]_vars

\* The consumer calls next until it returns None.
SpecIterLive == SpecIter /\ WF_vars(IterNext)

\* Depth-first pre-order: a node, then the pre-orders of its children from
\* left to right.
RECURSIVE PreOrder(_, _)
PreOrder(tree, node) ==
    <<node>> \o Concat([k \in 1..Len(children(tree, node)) |->
                            PreOrder(tree, children(tree, node)[k])])

RECURSIVE IsAncestor(_, _, _)
IsAncestor(tree, a, n) ==
    n # 1 /\ (tree.parent[n] = a \/ IsAncestor(tree, a, tree.parent[n]))

YieldedInPreOrder ==
    /\ Len(out) <= array.array.nodes
    /\ out = SubSeq(PreOrder(array.array, 1), 1, Len(out))
    /\ \A i, j \in 1..Len(out) : i # j => out[i] # out[j]
    /\ \A i, j \in 1..Len(out) : IsAncestor(array.array, out[i], out[j]) => i < j
    /\ pc = "done" =>
          /\ {out[i] : i \in 1..Len(out)} = 1..array.array.nodes
          /\ Len(out) > 0 /\ out[1] = 1

\* C28: the iterator terminates and yields every node of the tree exactly
\* once in depth-first pre-order: the root first, a parent before all its
\* descendants, the subtrees of a node's children from left to right.
C28_PreOrderOnceAndTerminates == []YieldedInPreOrder /\ <>(pc = "done")

\* A root whose first child has a child of its own and whose second child
\* is a leaf was walked to the end: the grandchild came before the leaf.
C28_Witness ==
    /\ pc = "done"
    /\ array.array.nodes = 4
    /\ array.array.parent = <<0, 1, 1, 2>>
    /\ out = <<1, 2, 4, 3>>

----------------------------------------------------------------------------
(* VarBinBuilder (vortex-array/src/array/varbin/builder.rs).               *)

MaxPushes == 3
MaxValueLen == 2
MaxFinishes == 2

\* VarBinBuilder::with_capacity: offsets [0], no data, no validity bit.
with_capacity(overflow_checks) ==
    [offsets |-> <<0>>, data |-> <<>>, validity |-> <<>>, finishes |-> 0,
     overflow_checks |-> overflow_checks]

InitBuilder ==
    /\ \E checks \in BOOLEAN : args = with_capacity(checks)
    /\ array = NoArray
    /\ out = NoArray
    /\ pc = "building"
    /\ dtype = Primitive("U8", FALSE)
    /\ chunks = <<>>
    /\ NumericIdle
    /\ StreamIdle

BuilderFrame == UNCHANGED <<lhs, rhs, op, chunks, dtype, array, StreamVars>>

\* push_value: the new end offset, the bytes, a valid bit.
PushValue ==
    /\ pc = "building"
    /\ Len(args.validity) < MaxPushes
    /\ \E n \in 0..MaxValueLen :
          args' = [args EXCEPT !.offsets = Append(@, Len(args.data) + n),
                               !.data = @ \o [i \in 1..n |-> i],
                               !.validity = Append(@, TRUE)]
    /\ UNCHANGED <<out, pc>>
    /\ BuilderFrame

\* push_null: the last offset again, a null bit; offsets[len - 1] of empty
\* offsets is a panic.
PushNull ==
    /\ pc = "building"
    /\ Len(args.validity) < MaxPushes
    /\ IF args.offsets = <<>>
       THEN pc' = "panicked" /\ out' = Panic /\ UNCHANGED args
       ELSE /\ args' = [args EXCEPT !.offsets = Append(@, args.offsets[Len(args.offsets)]),
                                    !.validity = Append(@, FALSE)]
            /\ UNCHANGED <<out, pc>>
    /\ BuilderFrame

VarBinArray(offsets, data, nullable, validity) ==
    [encoding |-> "varbin", offsets |-> offsets, data |-> data, nullable |-> nullable,
     validity |-> validity]

\* finish: offsets and data are taken out of the builder, which keeps empty
\* vectors; the validity is what was pushed, all valid over offsets.len() - 1
\* rows when no null was, and a null under a non-nullable dtype an assertion
\* failure.  offsets.len() - 1 of empty offsets overflows.
Finish_builder ==
    /\ pc = "building"
    /\ args.finishes < MaxFinishes
    /\ \E nullable \in BOOLEAN :
          LET nulls == \E i \in 1..Len(args.validity) : ~args.validity[i]
              taken == [args EXCEPT !.offsets = <<>>, !.data = <<>>, !.validity = <<>>,
                                    !.finishes = @ + 1]
          IN  IF ~nullable /\ nulls
              THEN pc' = "panicked" /\ out' = Panic /\ args' = taken
              ELSE IF nullable /\ ~nulls /\ args.offsets = <<>> /\ args.overflow_checks
              THEN pc' = "panicked" /\ out' = Panic /\ args' = taken
              ELSE /\ out' = Ok(VarBinArray(args.offsets, args.data, nullable,
                                   IF ~nullable THEN "None"
                                   ELSE IF nulls THEN args.validity
                                   ELSE IF args.offsets = <<>> THEN "Valid(wrapped)"
                                   ELSE [i \in 1..(Len(args.offsets) - 1) |-> TRUE]))
                   /\ args' = taken
                   /\ pc' = "building"
    /\ BuilderFrame

NextBuilder == PushValue \/ PushNull \/ Finish_builder

SpecBuilder == InitBuilder /\ [][NextBuilder]_vars

WellFormedOffsets(offsets, data, pushed) ==
    /\ Len(offsets) = pushed + 1
    /\ offsets[1] = 0
    /\ \A i \in 1..(Len(offsets) - 1) : offsets[i] <= offsets[i + 1]
    /\ offsets[Len(offsets)] = Len(data)

\* C29: after any sequence of push_value, push_null and finish the offsets
\* of the builder are well formed: offsets[0] = 0, one more entry than the
\* values pushed since the last finish, non-decreasing, the last equal to
\* the number of data bytes; a builder reused after finish() is back in its
\* initial state and builds a correct array without panic.
C29_BuilderOffsetsWellFormed ==
    /\ pc # "panicked"
    /\ WellFormedOffsets(args.offsets, args.data, Len(args.validity))
    /\ (out.ok /\ out # NoArray) =>
          WellFormedOffsets(out.array.offsets, out.array.data, Len(out.array.offsets) - 1)

----------------------------------------------------------------------------
(* ArrayView (vortex-array/src/view.rs).                                   *)

\* The flatbuffer tree fb::Array: a tree of nodes as above, each with or
\* without a buffer, at most one of them (unknown, 0 for none) of an
\* encoding the context does not know.
MaxViewNodes == 4

ViewTrees ==
    UNION {{[nodes |-> n, parent |-> p, has_buffer |-> b, unknown |-> u] :
                p \in {q \in [1..n -> 0..n] : q[1] = 0 /\ \A i \in 2..n : 1 <= q[i] /\ q[i] < i},
                b \in [1..n -> BOOLEAN], u \in 0..n} :
            n \in 1..MaxViewNodes}

\* ArrayView::cumulative_nbuffers.
RECURSIVE cumulative_nbuffers(_, _)
cumulative_nbuffers(tree, node) ==
    (IF tree.has_buffer[node] THEN 1 ELSE 0)
        + SumSeq([k \in 1..Len(children(tree, node)) |->
                    cumulative_nbuffers(tree, children(tree, node)[k])])

ArrayView(node, buffers) == [node |-> node, buffers |-> buffers]

\* ArrayView::try_new.
ArrayView_try_new(tree, buffers) ==
    IF tree.unknown = 1 THEN Err("InvalidSerde")
    ELSE IF Len(buffers) # cumulative_nbuffers(tree, 1) THEN Err("InvalidSerde")
    ELSE Ok(ArrayView(1, buffers))

\* buffers[buffer_offset..][0..buffer_count]: a range past the end panics.
Slice2(buffers, buffer_offset, buffer_count) ==
    IF buffer_offset > Len(buffers) \/ buffer_count > Len(buffers) - buffer_offset
    THEN Panic
    ELSE Ok(SubSeq(buffers, buffer_offset + 1, buffer_offset + buffer_count))

NoView == [some |-> FALSE, ok |-> TRUE, view |-> <<>>]
SomeView(view) == [some |-> TRUE, ok |-> TRUE, view |-> view]

\* child without the buffer of the parent itself.
child_skips_siblings_only(tree, view, idx) ==
    LET kids == children(tree, view.node)
    IN  IF idx >= Len(kids) THEN NoView
        ELSE IF tree.unknown = kids[idx + 1] THEN NoView
        ELSE LET buffer_offset == SumSeq([k \in 1..idx |-> cumulative_nbuffers(tree, kids[k])])
                 sliced == Slice2(view.buffers, buffer_offset,
                                  cumulative_nbuffers(tree, kids[idx + 1]))
             IN  IF sliced.ok THEN SomeView(ArrayView(kids[idx + 1], sliced.array))
                 ELSE [some |-> FALSE, ok |-> FALSE, view |-> <<>>]

\* ArrayView::child.
child(tree, view, idx) ==
    LET kids == children(tree, view.node)
    IN  IF idx >= Len(kids) THEN NoView
        ELSE IF tree.unknown = kids[idx + 1] THEN NoView
        ELSE LET buffer_offset == SumSeq([k \in 1..idx |-> cumulative_nbuffers(tree, kids[k])])
                                    + (IF tree.has_buffer[view.node] THEN 1 ELSE 0)
                 buffer_count == cumulative_nbuffers(tree, kids[idx + 1])
                 sliced == Slice2(view.buffers, buffer_offset, buffer_count)
             IN  IF sliced.ok THEN SomeView(ArrayView(kids[idx + 1], sliced.array))
                 ELSE [some |-> FALSE, ok |-> FALSE, view |-> <<>>]

\* ArrayView::buffer.
buffer(tree, view) ==
    IF tree.has_buffer[view.node] THEN [some |-> TRUE, buffer |-> view.buffers[1]]
    ELSE [some |-> FALSE, buffer |-> 0]

InitView ==
    /\ \E tree \in ViewTrees, n \in 0..(MaxViewNodes + 1) :
          /\ n <= tree.nodes + 1
          /\ args = [flatbuffer |-> tree, buffers |-> [i \in 1..n |-> i]]
    /\ array = NoArray
    /\ out = NoView
    /\ pc = "init"
    /\ dtype = Primitive("U8", FALSE)
    /\ chunks = <<>>
    /\ NumericIdle
    /\ StreamIdle

TryNewView ==
    /\ pc = "init"
    /\ array' = ArrayView_try_new(args.flatbuffer, args.buffers)
    /\ pc' = IF array'.ok THEN "view" ELSE "failed"
    /\ UNCHANGED <<lhs, rhs, op, chunks, dtype, args, out, StreamVars>>

\* view.child(idx, ..): the caller goes on with the child when there is one.
Child ==
    /\ pc = "view"
    /\ \E idx \in 0..(MaxViewNodes - 1) :
          /\ out' = child(args.flatbuffer, array.array, idx)
          /\ array' = IF out'.some THEN Ok(out'.view) ELSE array
          /\ pc' = IF out'.ok THEN "view" ELSE "panicked"
    /\ UNCHANGED <<lhs, rhs, op, chunks, dtype, args, StreamVars>>

NextView == TryNewView \/ Child

SpecView == InitView /\ [][NextView]_vars

\* The nodes of the subtree of a node, and the buffers of the flatbuffer
\* tree in depth-first pre-order.
Subtree(tree, node) == {node} \cup {n \in 1..tree.nodes : IsAncestor(tree, node, n)}
Owned(tree, node) == Cardinality({n \in Subtree(tree, node) : tree.has_buffer[n]})
Before(tree, node) ==
    LET order == PreOrder(tree, 1)
        at == CHOOSE i \in 1..Len(order) : order[i] = node
    IN  Cardinality({i \in 1..(at - 1) : tree.has_buffer[order[i]]})

\* C30: for every view try_new accepts (it rejects with InvalidSerde an
\* unknown encoding id and a buffer count other than the number of buffers
\* of the flatbuffer tree) the buffers are assigned depth-first: a node with
\* a buffer owns the first of its slice, child idx gets the slice after the
\* parent's own buffer and the subtrees of its preceding siblings, of the
\* size of its own subtree; sibling slices are disjoint and in bounds, and
\* every node at any depth sees the buffer at its pre-order position.
C30_BuffersDepthFirst ==
    LET tree == args.flatbuffer
    IN  /\ pc # "panicked"
        /\ pc \in {"view", "failed"} =>
              /\ array.ok <=> (tree.unknown # 1 /\ Len(args.buffers) = Owned(tree, 1))
              /\ ~array.ok => array.err = "InvalidSerde"
        /\ pc = "view" =>
              LET view == array.array
                  kids == children(tree, view.node)
              IN  /\ view.buffers = SubSeq(args.buffers, Before(tree, view.node) + 1,
                                           Before(tree, view.node) + Owned(tree, view.node))
                  /\ buffer(tree, view).some =>
                        buffer(tree, view).buffer = args.buffers[Before(tree, view.node) + 1]
                  /\ \A i \in 1..Len(kids) :
                        LET c == child(tree, view, i - 1)
                        IN  /\ c.ok
                            /\ tree.unknown # kids[i] =>
                                  /\ c.some
                                  /\ Len(c.view.buffers) = Owned(tree, kids[i])
                                  /\ \A k \in 1..Len(c.view.buffers) :
                                        /\ c.view.buffers[k] \in
                                              {view.buffers[m] : m \in 1..Len(view.buffers)}
                                        /\ tree.has_buffer[view.node] =>
                                              c.view.buffers[k] # view.buffers[1]
                                        /\ \A j \in 1..(i - 1) :
                                              child(tree, view, j - 1).some =>
                                                \A m \in 1..Len(child(tree, view, j - 1).view.buffers) :
                                                    child(tree, view, j - 1).view.buffers[m]
                                                        # c.view.buffers[k]

\* The view of a grandchild with a buffer, behind a parent and a
\* grandparent that each own one, and a sibling subtree before its parent.
C30_Witness ==
    /\ pc = "view"
    /\ args.flatbuffer.parent = <<0, 1, 1, 3>>
    /\ args.flatbuffer.has_buffer = <<TRUE, TRUE, TRUE, TRUE>>
    /\ array.array = ArrayView(4, <<4>>)


====
